---- MODULE Spec2Model ----
(***************************************************************************)
(* A model of the APA stat scraper's table-parsing and scroll-pagination   *)
(* engine: the Cell Parsers of extract-player, extract-team and the shared *)
(* TeamDataExtractor, the Scroll-Pagination Loop in its two variants, the  *)
(* Season Classifier and the Aggregator.                                   *)
(*                                                                         *)
(* Python values are modelled as follows.  A str is a sequence of          *)
(* one-character strings.  A dict is a function whose domain is the set of *)
(* keys present; a key holding None is modelled as a key that is absent    *)
(* (the code reads these dicts through .get() only, which cannot tell the  *)
(* two apart).  A float is an exact fraction [num, den] in lowest terms.   *)
(* A skill_level is tagged, I(n) for an int and S(s) for a str, since the  *)
(* Aggregator accepts both.                                                *)
(***************************************************************************)
EXTENDS Integers, Sequences, FiniteSets, TLC

VARIABLES
    \* ---- one Cell Parser call --------------------------------------------
    parser,         \* which Cell Parser runs: "player", "shared" or "roster"
    cells,          \* the text content of the row's <td> cells, in order
    link,           \* href of the <a> inside the first cell (<<>>: no link)
    made_of,        \* the parts the page concatenated into the first cell
    team_data,      \* what the parser returned (None before it has run)
    \* ---- one extraction of a player's teams --------------------------------
    variant,        \* "player": ExtractPlayerAction, "shared": TeamDataExtractor
    pc,             \* position of the extraction in the code
    attempt,        \* "for attempt in range(max_retries)" of the shared variant
    page,           \* the page now: [rows: the rendered <tr>, as indexes into
                    \* RowPool; divs: the section <div>s it has]
    current_teams,  \* result of _extract_current_teams
    all_teams,      \* the merged list of _scroll_and_extract_past_teams
    previous_count, \* extract-player's count of all_teams at the last growth
    scroll_attempts,\* the retry counter
    new_teams_added,\* net-new records of the latest scan (or rescan)
    sel,            \* index of the Load More selector to try next
    clicked,        \* button_clicked / load_more_clicked
    it,             \* the steps the current iteration has taken so far
    scanned,        \* the rows of the page at the latest scan that was merged
    returned,       \* what _scroll_and_extract_past_teams returned ([] while
                    \* it runs)
    exit,           \* how the loop was left: "bottom", "ceiling", "no_new",
                    \* "error" ("none" while it runs)
    trouble,        \* a scan of this attempt raised and returned []
    past_teams,     \* result of _extract_past_teams
    result,         \* what extract_player_team_history returned
    \* ---- one Table Scanner scan -------------------------------------------
    tables,         \* the indexes of page.rows at which a <table> begins
    faulty,         \* the rows whose handling raises: [query: at the query of
                    \* its cells, parse: inside the Cell Parser]
    handed,         \* the rows the scan handed to a Cell Parser, in order
    scan_teams,     \* what the scan returned (its list teams)
    \* ---- player expansion of extract-team ---------------------------------
    roster,         \* team_data['players'] as _expand_player_data received it
    players,        \* team_data['players'] now
    next_player,    \* index of the player the loop handles next
    visits,         \* the user ids extract_player_team_history was called
                    \* with, in call order
    failed,         \* the players whose extraction returned None or raised
    \* ---- the retries of extract_player_team_history -----------------------
    wait,           \* seconds slept before the current attempt began (0: none)
    tab_attempt,    \* "for attempt in range(max_retries)" of _click_teams_tab
    \* ---- one run of the command line ---------------------------------------
    cli,            \* the run: [action, session: an authenticated session
                    \* exists, no_cache, cached: the cache holds a valid entry
                    \* for the request, output_file: one was asked for]
    checked,        \* what is_authenticated() answered: "found", "none", or
                    \* "no" while it has not been asked
    effects,        \* what the run has done so far, in order
    success,        \* what action.run returned: "True", "False" ("unset"
                    \* while it has not returned)
    in_flight,      \* the exception propagating out of the action ("none")
    exit_status,    \* what main returned (-1 while it has not)
    \* ---- the cache store ---------------------------------------------------
    cache_files,    \* the cache directory: cache key -> [data, st_mtime]
    now,            \* datetime.now().timestamp(), in seconds
    written,        \* the last cache_data that succeeded for each
                    \* (kind, id, league, expand), while the file it wrote
                    \* has not been unlinked: [record, at]
    asked,          \* the arguments of the last get_cached_data
    got,            \* what that get_cached_data returned
    call            \* the cleanup_expired, clear_cache or cache-manage
                    \* command that has just returned ([op |-> "none"]: none)

parseVars == <<parser, cells, link, made_of, team_data>>
loopVars  == <<page, all_teams, previous_count, scroll_attempts, new_teams_added,
               sel, clicked, it, scanned, returned, exit, trouble>>
runVars   == <<variant, pc, attempt, current_teams, past_teams, result>>
scanVars  == <<tables, faulty, handed, scan_teams>>
expandVars == <<roster, players, next_player, visits, failed>>
retryVars == <<wait, tab_attempt>>
cliVars   == <<cli, checked, effects, success, in_flight, exit_status>>
cacheVars == <<cache_files, now, written, asked, got, call>>
restVars  == <<scanVars, expandVars, retryVars, cliVars, cacheVars>>
vars      == <<parseVars, loopVars, runVars, restVars>>

(***************************************************************************)
(* Python values                                                           *)
(***************************************************************************)
None == [py_none |-> TRUE]
EmptyDict == [k \in {} |-> 0]
Has(d, k) == k \in DOMAIN d
Put(d, k, v) == (k :> v) @@ d
I(n) == [int |-> n]
S(s) == [str |-> s]
IsInt(v) == DOMAIN v = {"int"}

RECURSIVE GCD(_, _)
GCD(a, b) == IF b = 0 THEN a ELSE GCD(b, a % b)
Frac(n, d) == LET g == GCD(n, d) IN [num |-> n \div g, den |-> d \div g]

RECURSIVE Pow10(_)
Pow10(k) == IF k = 0 THEN 1 ELSE 10 * Pow10(k - 1)

\* round(100 * won / played, 1): Python rounds the nearest tenth, ties to even
Round1(won, played) ==
    LET q == (1000 * won) \div played
        r == (1000 * won) % played
        t == IF 2 * r > played THEN q + 1
             ELSE IF 2 * r = played THEN q + (q % 2)
             ELSE q
    IN  Frac(t, 10)

(***************************************************************************)
(* str methods and the regular expressions of the Cell Parsers             *)
(***************************************************************************)
Digits == {"0", "1", "2", "3", "4", "5", "6", "7", "8", "9"}
DigitVal == [c \in Digits |->
    CASE c = "0" -> 0 [] c = "1" -> 1 [] c = "2" -> 2 [] c = "3" -> 3
      [] c = "4" -> 4 [] c = "5" -> 5 [] c = "6" -> 6 [] c = "7" -> 7
      [] c = "8" -> 8 [] c = "9" -> 9]
DigitChar == <<"0", "1", "2", "3", "4", "5", "6", "7", "8", "9">>

IsSpace(c) == c \in {" ", "\t", "\n"}
IsDigit(c) == c \in Digits

Upper == {"A", "B", "C", "D", "E", "F", "G", "H", "I", "J", "K", "L", "M",
          "N", "O", "P", "Q", "R", "S", "T", "U", "V", "W", "X", "Y", "Z"}
LowerOf == [c \in Upper |->
    CASE c = "A" -> "a" [] c = "B" -> "b" [] c = "C" -> "c" [] c = "D" -> "d"
      [] c = "E" -> "e" [] c = "F" -> "f" [] c = "G" -> "g" [] c = "H" -> "h"
      [] c = "I" -> "i" [] c = "J" -> "j" [] c = "K" -> "k" [] c = "L" -> "l"
      [] c = "M" -> "m" [] c = "N" -> "n" [] c = "O" -> "o" [] c = "P" -> "p"
      [] c = "Q" -> "q" [] c = "R" -> "r" [] c = "S" -> "s" [] c = "T" -> "t"
      [] c = "U" -> "u" [] c = "V" -> "v" [] c = "W" -> "w" [] c = "X" -> "x"
      [] c = "Y" -> "y" [] c = "Z" -> "z"]
LowerChar(c) == IF c \in Upper THEN LowerOf[c] ELSE c

\* s.lower()
lower(s) == [i \in 1..Len(s) |-> LowerChar(s[i])]

\* s.strip()
strip(s) ==
    LET keep == {i \in 1..Len(s) : ~IsSpace(s[i])}
    IN  IF keep = {} THEN <<>>
        ELSE SubSeq(s, CHOOSE i \in keep : \A j \in keep : i <= j,
                       CHOOSE i \in keep : \A j \in keep : i >= j)

\* s.isdigit()
isdigit(s) == Len(s) > 0 /\ \A i \in 1..Len(s) : IsDigit(s[i])

\* int(s) of a digit string
RECURSIVE int(_)
int(s) == IF Len(s) = 0 THEN 0
          ELSE 10 * int(SubSeq(s, 1, Len(s) - 1)) + DigitVal[s[Len(s)]]

\* str(n) of a natural number
RECURSIVE str(_)
str(n) == IF n < 10 THEN <<DigitChar[n + 1]>>
          ELSE str(n \div 10) \o <<DigitChar[(n % 10) + 1]>>

\* sub in s
Contains(s, sub) ==
    \E i \in 1..(Len(s) - Len(sub) + 1) : SubSeq(s, i, i + Len(sub) - 1) = sub

\* s[:start] + s[end:], for a match that covers positions start..stop-1
Excise(s, start, stop) == SubSeq(s, 1, start - 1) \o SubSeq(s, stop, Len(s))

\* the literal w matches s at position i under re.IGNORECASE
LiteralAt(s, i, w) ==
    /\ i + Len(w) - 1 <= Len(s)
    /\ \A k \in 1..Len(w) : LowerChar(s[i + k - 1]) = LowerChar(w[k])

\* the end (exclusive) of the longest run of characters of class C from i
RunEnd(s, i, C) ==
    LET stops == {j \in i..(Len(s) + 1) : j = Len(s) + 1 \/ s[j] \notin C}
    IN  CHOOSE j \in stops : \A k \in stops : j <= k

NoMatch == [found |-> FALSE]
\* re.search: the match that starts leftmost, given the end of the match at
\* each start (0: no match there)
Leftmost(s, EndAt(_)) ==
    LET starts == {i \in 1..Len(s) : EndAt(i) # 0}
    IN  IF starts = {} THEN NoMatch
        ELSE LET i == CHOOSE a \in starts : \A b \in starts : a <= b
             IN  [found |-> TRUE, start |-> i, stop |-> EndAt(i)]

SeasonWords == << <<"F","a","l","l">>, <<"S","p","r","i","n","g">>,
                  <<"S","u","m","m","e","r">>, <<"W","i","n","t","e","r">> >>
RoleWords == << <<"C","a","p","t","a","i","n">>,
                <<"C","o","-","C","a","p","t","a","i","n">>,
                <<"M","e","m","b","e","r">> >>

\* the alternation (w1|w2|...) at position i: the first alternative that
\* matches there, 0 when none does
Least(hits) == IF hits = {} THEN 0 ELSE CHOOSE k \in hits : \A h \in hits : k <= h
AltAt(s, i, words) == Least({k \in 1..Len(words) : LiteralAt(s, i, words[k])})

\* (Fall|Spring|Summer|Winter)\s*(20\d{2}) with re.IGNORECASE, at position i.
\* No season word is a prefix of another and \s* cannot swallow the "2", so
\* the greedy match is the only one.
SeasonYearAt(s, i) ==
    LET After(k) == IF k = 0 THEN 0
                    ELSE RunEnd(s, i + Len(SeasonWords[k]), {" ", "\t", "\n"})
    IN  After(AltAt(s, i, SeasonWords))
SeasonEndAt(s, i) ==
    LET Year(y) == IF /\ y # 0
                      /\ y + 3 <= Len(s)
                      /\ s[y] = "2" /\ s[y + 1] = "0"
                      /\ IsDigit(s[y + 2]) /\ IsDigit(s[y + 3])
                   THEN y + 4 ELSE 0
    IN  Year(SeasonYearAt(s, i))
SeasonSearch(s) == LET E(i) == SeasonEndAt(s, i) IN Leftmost(s, E)

\* (Captain|Co-Captain|Member) with re.IGNORECASE
RoleEndAt(s, i) ==
    LET After(k) == IF k = 0 THEN 0 ELSE i + Len(RoleWords[k])
    IN  After(AltAt(s, i, RoleWords))
RoleSearch(s) == LET E(i) == RoleEndAt(s, i) IN Leftmost(s, E)

\* 20\d{2}
YearEndAt(s, i) ==
    IF /\ i + 3 <= Len(s)
       /\ s[i] = "2" /\ s[i + 1] = "0"
       /\ IsDigit(s[i + 2]) /\ IsDigit(s[i + 3])
    THEN i + 4 ELSE 0
YearSearch(s) == LET E(i) == YearEndAt(s, i) IN Leftmost(s, E)

\* float(text) of <digits>[.<digits>]
Float(text) ==
    LET Parts(whole, frac) ==
            Frac(int(whole) * Pow10(Len(frac)) + int(frac), Pow10(Len(frac)))
        Split(dot) == Parts(SubSeq(text, 1, dot - 1), SubSeq(text, dot + 1, Len(text)))
    IN  Split(RunEnd(text, 1, Digits))

\* \d+(?:\.\d+)? at position i: the end of the number
NumberEndAt(s, i) ==
    IF ~(i <= Len(s) /\ IsDigit(s[i])) THEN 0
    ELSE LET Fraction(a) ==
                 IF a + 1 <= Len(s) /\ s[a] = "." /\ IsDigit(s[a + 1])
                 THEN RunEnd(s, a + 1, Digits) ELSE a
         IN  Fraction(RunEnd(s, i, Digits))
NumberSearch(s) == LET E(i) == NumberEndAt(s, i) IN Leftmost(s, E)

\* (\d+(?:\.\d+)?)% at position i (extract-player, extract-team): the
\* position of the "%"
PercentEndAt(s, i) ==
    IF ~(i <= Len(s) /\ IsDigit(s[i])) THEN 0
    ELSE LET Sign(a, b) == IF b <= Len(s) /\ s[b] = "%" THEN b
                           ELSE IF a <= Len(s) /\ s[a] = "%" THEN a
                           ELSE 0
         IN  Sign(RunEnd(s, i, Digits), NumberEndAt(s, i))
PercentSearch(s) == LET E(i) == PercentEndAt(s, i) IN Leftmost(s, E)

\* (\d+\.?\d*)% at position i (TeamDataExtractor): "50.%" matches too
LoosePercentEndAt(s, i) ==
    IF ~(i <= Len(s) /\ IsDigit(s[i])) THEN 0
    ELSE LET Sign(a, b) == IF b <= Len(s) /\ s[b] = "%" THEN b
                           ELSE IF a <= Len(s) /\ s[a] = "%" THEN a
                           ELSE 0
             Fraction(a) == Sign(a, IF a <= Len(s) /\ s[a] = "."
                                    THEN RunEnd(s, a + 1, Digits) ELSE a)
         IN  Fraction(RunEnd(s, i, Digits))
LoosePercentSearch(s) == LET E(i) == LoosePercentEndAt(s, i) IN Leftmost(s, E)

(***************************************************************************)
(* Cell Parsers                                                            *)
(***************************************************************************)
\* Cell 0 of a team-history row: "<name><season><role>" with no separator.
\* The season is searched and cut out first, then the role, and what is left
\* is the name (both parsers, same statements).
TeamCell(team_cell) ==
    IF team_cell = <<>> THEN EmptyDict
    ELSE LET \* f"{season_match.group(1)} {season_match.group(2)}"
             SeasonText(sm) ==
                 LET Text(k) ==
                         SubSeq(team_cell, sm.start,
                                sm.start + Len(SeasonWords[k]) - 1)
                           \o <<" ">> \o SubSeq(team_cell, sm.stop - 4, sm.stop - 1)
                 IN  Text(AltAt(team_cell, sm.start, SeasonWords))
             Name(d, cell) == Put(d, "name", strip(cell))
             Role(d, cell) ==
                 LET Cut(rm) ==
                         IF rm.found
                         THEN Name(Put(d, "role", SubSeq(cell, rm.start, rm.stop - 1)),
                                   Excise(cell, rm.start, rm.stop))
                         ELSE Name(d, cell)
                 IN  Cut(RoleSearch(cell))
             Season(sm) ==
                 Role(IF sm.found THEN Put(EmptyDict, "season", SeasonText(sm))
                      ELSE EmptyDict,
                      IF sm.found THEN Excise(team_cell, sm.start, sm.stop)
                      ELSE team_cell)
         IN  Season(SeasonSearch(team_cell))

\* "if cell and cell.strip().isdigit(): d[key] = int(cell.strip())"
DigitCell(d, key, cell) ==
    IF isdigit(strip(cell)) THEN Put(d, key, int(strip(cell))) ELSE d

\* the same for skill_level, whose value the Aggregator reads
SkillCell(d, cell) ==
    IF isdigit(strip(cell)) THEN Put(d, "skill_level", I(int(strip(cell))))
    ELSE d

\* "if mvp_cell and mvp_cell.strip() != '-': d['mvp_rank'] = mvp_cell.strip()"
MvpCell(d, cell) ==
    IF cell # <<>> /\ strip(cell) # <<"-">> THEN Put(d, "mvp_rank", strip(cell))
    ELSE d

\* the percentage the page displays, as extract-player and extract-team read it
DisplayedPercent(d, cell) ==
    LET Set(m) ==
            IF m.found
            THEN Put(d, "win_percentage", Float(SubSeq(cell, m.start, m.stop - 1)))
            ELSE d
    IN  Set(PercentSearch(cell))

\* the percentage the page displays, as TeamDataExtractor reads it
LooseDisplayedPercent(d, cell) ==
    LET Set(m) ==
            IF m.found
            THEN Put(d, "win_percentage", Float(SubSeq(cell, m.start, m.stop - 1)))
            ELSE d
    IN  Set(LoosePercentSearch(cell))

\* "if d.get('matches_played') and d.get('matches_won') is not None": the
\* first test is a truth test, false for 0
HasPlayedAndWon(d) ==
    /\ Has(d, "matches_played") /\ d.matches_played # 0
    /\ Has(d, "matches_won")

\* extract-player and extract-team: win_percentage = round(win_pct, 1)
RecomputeRounded(d) ==
    IF HasPlayedAndWon(d) /\ d.matches_played > 0
    THEN Put(d, "win_percentage", Round1(d.matches_won, d.matches_played))
    ELSE d

\* TeamDataExtractor: win_percentage = (won / played) * 100
RecomputeExact(d) ==
    IF HasPlayedAndWon(d) /\ d.matches_played > 0
    THEN Put(d, "win_percentage", Frac(100 * d.matches_won, d.matches_played))
    ELSE d

\* self.userid of the extract-player action
UserId == <<"3","2","8","7","2","8","8">>

\* ExtractPlayerAction._extract_team_data_from_row
\* "return team_data if 'name' in team_data else None" (extract-player), and
\* the truth test of the name in extract-team
NamedOrNone(d) == IF Has(d, "name") /\ d.name # <<>> THEN d ELSE None

EP_extract_team_data_from_row(c) ==
    IF Len(c) < 6 THEN None
    ELSE LET d0 == TeamCell(c[1])
             d1 == SkillCell(d0, c[2])
             d2 == DigitCell(d1, "matches_played", c[3])
             d3 == DigitCell(d2, "matches_won", c[4])
             d4 == DisplayedPercent(d3, c[5])
             d5 == MvpCell(d4, c[6])
             d6 == RecomputeRounded(d5)
             d7 == Put(Put(d6, "team_id", UserId), "status", "current")
         IN  NamedOrNone(d7)

\* TeamDataExtractor._extract_team_data_from_row
TDE_extract_team_data_from_row(c) ==
    IF Len(c) < 6 THEN None
    ELSE LET d0 == TeamCell(c[1])
             d1 == SkillCell(d0, c[2])
             d2 == DigitCell(d1, "matches_played", c[3])
             d3 == DigitCell(d2, "matches_won", c[4])
             d4 == LooseDisplayedPercent(d3, c[5])
             d5 == MvpCell(d4, c[6])
         IN  RecomputeExact(d5)

\* TeamDataExtractor._extract_team_data_from_row_flexible
TDE_extract_team_data_from_row_flexible(c) ==
    LET cell_texts == [i \in 1..Len(c) |-> strip(c[i])]
        two == IF isdigit(cell_texts[1]) /\ Len(cell_texts[1]) = 4
               THEN Put(Put(EmptyDict, "season", cell_texts[1]),
                        "name", cell_texts[2])
               ELSE Put(Put(EmptyDict, "name", cell_texts[1]),
                        "season", cell_texts[2])
        other == Put(Put(EmptyDict, "name",
                         IF Len(c) > 0 THEN cell_texts[1]
                         ELSE <<"U","n","k","n","o","w","n">>),
                     "season",
                     IF Len(c) > 1 THEN cell_texts[2] ELSE <<"N","/","A">>)
        d == IF Len(c) = 2 THEN two ELSE other
    IN  IF Len(c) >= 6 THEN TDE_extract_team_data_from_row(c)
        ELSE IF d.name # <<>> THEN d ELSE None

\* r'#(\d+)$' at position i: "#", digits, end of text
MemberIdEndAt(s, i) ==
    IF /\ s[i] = "#"
       /\ i < Len(s)
       /\ RunEnd(s, i + 1, Digits) = Len(s) + 1
    THEN Len(s) + 1 ELSE 0
MemberIdSearch(s) == LET E(i) == MemberIdEndAt(s, i) IN Leftmost(s, E)

\* r'/member/(\d+)' at position i
MemberPath == <<"/","m","e","m","b","e","r","/">>
MemberUrlEndAt(s, i) ==
    IF /\ i + Len(MemberPath) <= Len(s)
       /\ SubSeq(s, i, i + Len(MemberPath) - 1) = MemberPath
       /\ IsDigit(s[i + Len(MemberPath)])
    THEN RunEnd(s, i + Len(MemberPath), Digits) ELSE 0
MemberUrlSearch(s) == LET E(i) == MemberUrlEndAt(s, i) IN Leftmost(s, E)

\* Cell 0 of a roster row: "<name>#<member id>", and the user id of its link
NameCell(name_cell, href) ==
    IF name_cell = <<>> THEN EmptyDict
    ELSE LET User(d, u) ==
                 IF u.found
                 THEN Put(d, "userid",
                          SubSeq(href, u.start + Len(MemberPath), u.stop - 1))
                 ELSE d
             Member(name_text, m) ==
                 IF m.found
                 THEN Put(Put(EmptyDict, "member_id",
                              SubSeq(name_text, m.start + 1, m.stop - 1)),
                          "name", strip(SubSeq(name_text, 1, m.start - 1)))
                 ELSE Put(EmptyDict, "name", name_text)
             Name(name_text) ==
                 User(Member(name_text, MemberIdSearch(name_text)),
                      MemberUrlSearch(href))
         IN  Name(strip(name_cell))

\* Cell 2 of a roster row: "<won>/<played>"
MatchesCell(d, cell) ==
    LET text  == strip(cell)
        slash == {i \in 1..Len(text) : text[i] = "/"}
        at    == CHOOSE i \in slash : TRUE
        won   == SubSeq(text, 1, at - 1)
        played == SubSeq(text, at + 1, Len(text))
    IN  IF Cardinality(slash) = 1 /\ isdigit(won) /\ isdigit(played)
        THEN Put(Put(d, "matches_won", int(won)), "matches_played", int(played))
        ELSE d

\* Cells 4 and 5 of a roster row: the first number in the cell
NumberCell(d, key, cell) ==
    LET Set(m) ==
            IF m.found THEN Put(d, key, Float(SubSeq(cell, m.start, m.stop - 1)))
            ELSE d
    IN  Set(NumberSearch(cell))

\* ExtractTeamAction._extract_player_data_from_row
ET_extract_player_data_from_row(c, href) ==
    IF Len(c) < 6 THEN None
    ELSE LET d0 == NameCell(c[1], href)
             d1 == SkillCell(d0, c[2])
             d2 == MatchesCell(d1, c[3])
             d3 == DisplayedPercent(d2, c[4])
             d4 == NumberCell(d3, "ppm", c[5])
             d5 == NumberCell(d4, "pa", c[6])
             d6 == RecomputeRounded(d5)
         IN  NamedOrNone(d6)

(***************************************************************************)
(* Row Validators                                                          *)
(***************************************************************************)
skip_names == {
    <<"m","e","m","b","e","r"," ","s","e","r","v","i","c","e","s">>,
    <<"d","a","s","h","b","o","a","r","d">>,
    <<"m","a","t","c","h","e","s">>,
    <<"n","e","w","s">>,
    <<"e","v","e","n","t","s">>,
    <<"m","y"," ","s","t","a","t","s">>,
    <<"r","u","l","e","s">>,
    <<"m","y"," ","l","e","a","g","u","e","s">>,
    <<"a","p","a"," ","n","a","t","i","o","n","a","l">>,
    <<"s","t","o","r","e">>,
    <<"t","o","u","r","n","a","m","e","n","t"," ","i","n","f","o">>,
    <<"d","i","s","c","o","u","n","t","s">>,
    <<"c","o","n","t","a","c","t">>,
    <<"n","e","e","d"," ","h","e","l","p">>,
    <<"l","o","g","o","u","t">>,
    <<"l","o","g","i","n">>,
    <<"s","e","t","t","i","n","g","s">>,
    <<"e","d","i","t"," ","p","r","o","f","i","l","e">>,
    <<"p","a","y","m","e","n","t","s">>,
    <<"m","y"," ","m","e","m","b","e","r","s","h","i","p">>,
    <<"c","a","r","d","/","i","d">>,
    <<"a","c">>,
    <<"n","o","t","e",":"," ","t","h","i","s"," ","t","a","b","l","e"," ",
      "d","i","s","p","l","a","y","s">>,
    <<"t","e","a","m"," ","s","t","a","t","i","s","t","i","c","s"," ","a","r","e"," ",
      "n","o","t"," ","a","v","a","i","l","a","b","l","e">> }

Lowercase == {LowerOf[c] : c \in Upper}
IsAlnum(c) == c \in Upper \cup Lowercase \cup Digits

\* s.replace('.', '')
WithoutDots(s) == SelectSeq(s, LAMBDA c : c # ".")

\* the tests of _is_valid_team_data / _is_valid_player_data on a name, given
\* the denylist
ValidName(name, denylist) ==
    /\ Len(name) >= 3
    /\ ~\E skip \in denylist : Contains(lower(name), skip)
    /\ ~(Len(strip(name)) < 3 \/ isdigit(strip(name)))
    /\ ~(strip(name) # <<>> /\ strip(name)[Len(strip(name))] = "%")
    /\ ~isdigit(WithoutDots(strip(name)))
    /\ 2 * Cardinality({i \in 1..Len(name) :
                          ~IsAlnum(name[i]) /\ ~IsSpace(name[i])}) <= Len(name)

\* ExtractPlayerAction._is_valid_team_data
EP_is_valid_team_data(d) ==
    ValidName(IF Has(d, "name") THEN d.name ELSE <<>>, skip_names)

\* a validator that lets every record through
AnyTeamData(d) == TRUE

\* TeamDataExtractor._is_valid_team_data
TDE_is_valid_team_data(d) ==
    /\ Has(d, "name") /\ d.name # <<>>
    /\ \/ Has(d, "skill_level") \/ Has(d, "matches_played")
       \/ Has(d, "matches_won") \/ Has(d, "season")

(***************************************************************************)
(* The page and the Table Scanners                                         *)
(***************************************************************************)
\* The rows a teams page can render.  Each is a <tr> inside a <tbody>, given
\* by the text of its <td> cells; the header row has <th> cells only.
RowPool == <<
    <<>>,
    << <<"A","l","l"," ","i","n"," ","t","h","e"," ","G","a","m","e",
         "F","a","l","l"," ","2","0","2","5","C","a","p","t","a","i","n">>,
       <<"7">>, <<"2">>, <<"1">>, <<"5","0",".","0","0","%">>, <<"-">> >>,
    << <<"H","o","t"," ","S","h","o","t","s",
         "S","p","r","i","n","g"," ","2","0","2","5","M","e","m","b","e","r">>,
       <<"3">>, <<"3">>, <<"1">>, <<"3","3",".","3","%">>, <<"3","5","t","h">> >>,
    << <<"H","o","t"," ","S","h","o","t","s",
         "F","a","l","l"," ","2","0","2","4","M","e","m","b","e","r">>,
       <<"5">>, <<"5">>, <<"3">>, <<"6","0",".","0","%">>, <<"-">> >>,
    \* 5: a row whose first cell holds a season and a role but no team name
    << <<"F","a","l","l"," ","2","0","2","5","C","a","p","t","a","i","n">>,
       <<"7">>,
       <<"2">>,
       <<"1">>,
       <<"5","0",".","0","0","%">>,
       <<"-">> >>,
    \* 6: a row of page furniture laid out like a team row
    << <<"D","a","s","h","b","o","a","r","d","F","a","l","l"," ","2","0","2","5","M","e","m","b","e","r">>,
       <<"-">>,
       <<"-">>,
       <<"-">>,
       <<"-">>,
       <<"-">> >>,
    \* 7: a row whose first cell is empty
    << <<>>,
       <<"4">>,
       <<"1">>,
       <<"1">>,
       <<"1","0","0","%">>,
       <<"-">> >>,
    \* 8: a two-cell row of navigation links
    << <<"N","e","w","s">>,
       <<"E","v","e","n","t","s">> >> >>
RowIds == 1..Len(RowPool)
\* the rows the pages of one extraction are made of
LoopRowIds == 2..5

\* what each parser makes of each row of the pool
EP_Row == [r \in RowIds |-> EP_extract_team_data_from_row(RowPool[r])]
TDE_Row == [r \in RowIds |->
              IF Len(RowPool[r]) >= 2
              THEN TDE_extract_team_data_from_row_flexible(RowPool[r])
              ELSE None]

\* the elements of seq at the indexes that pass Keep, mapped by Val, in order
Collect(seq, Keep(_), Val(_)) ==
    LET idx == SelectSeq([i \in 1..Len(seq) |-> i], Keep)
    IN  [k \in 1..Len(idx) |-> Val(idx[k])]

\* ExtractPlayerAction._extract_all_teams_from_table on a page that renders
\* rows: every 'table tbody tr' but the first, when it has 6 cells, parses to
\* a record and that record is valid
EP_extract_all_teams_from_table(rows) ==
    LET Keep(i) == /\ i # 1
                   /\ Len(RowPool[rows[i]]) >= 6
                   /\ EP_Row[rows[i]] # None
                   /\ EP_is_valid_team_data(EP_Row[rows[i]])
        Val(i)  == EP_Row[rows[i]]
    IN  Collect(rows, Keep, Val)

\* TeamDataExtractor._extract_all_teams_from_table.  Every query returns fresh
\* element handles, so id(row) tells apart the handles that 'table tbody tr',
\* 'table tr' and the two section queries return for one <tr>: unique_rows is
\* all_rows.  No row of the pool matches the class and data-testid selectors.
TDE_extract_all_teams_from_table(pg) ==
    LET all_rows == pg.rows \o pg.rows
                    \o (IF "Current Teams" \in pg.divs THEN pg.rows ELSE <<>>)
                    \o (IF "Past Teams" \in pg.divs THEN pg.rows ELSE <<>>)
        Keep(i) == /\ i # 1
                   /\ Len(RowPool[all_rows[i]]) >= 2
                   /\ TDE_Row[all_rows[i]] # None
                   /\ TDE_is_valid_team_data(TDE_Row[all_rows[i]])
        Val(i)  == TDE_Row[all_rows[i]]
    IN  Collect(all_rows, Keep, Val)

extract_all_teams_from_table(v, pg) ==
    IF v = "player" THEN EP_extract_all_teams_from_table(pg.rows)
    ELSE TDE_extract_all_teams_from_table(pg)

(***************************************************************************)
(* Merging, the Season Classifier and the Aggregator                       *)
(***************************************************************************)
\* t.get('name') == team.get('name') and t.get('season') == team.get('season')
SameField(t, u, k) == IF Has(t, k) /\ Has(u, k) THEN t[k] = u[k]
                      ELSE ~Has(t, k) /\ ~Has(u, k)
SameTeam(t, u) == SameField(t, u, "name") /\ SameField(t, u, "season")

\* a merge without the membership test: every team found is appended
AddAllTeams(all, found) == all \o found

\* "for team in current_teams: if not any(... for t in all_teams):
\*      all_teams.append(team)"
RECURSIVE AddNewTeams(_, _)
AddNewTeams(all, found) ==
    IF found = <<>> THEN all
    ELSE AddNewTeams(IF \E i \in 1..Len(all) : SameTeam(all[i], Head(found))
                     THEN all ELSE Append(all, Head(found)),
                     Tail(found))

\* team.get('season', '')
SeasonOf(team) == IF Has(team, "season") THEN team.season ELSE <<>>

\* the years list: int of the first 20\d{2} in each non-empty season
YearOf(season) ==
    LET m == YearSearch(season) IN int(SubSeq(season, m.start, m.stop - 1))
Years(teams) ==
    {YearOf(SeasonOf(teams[i])) :
        i \in {j \in 1..Len(teams) : /\ SeasonOf(teams[j]) # <<>>
                                     /\ YearSearch(SeasonOf(teams[j])).found}}
Max(set) == CHOOSE x \in set : \A y \in set : x >= y
Min(set) == CHOOSE x \in set : \A y \in set : x <= y

\* the earliest year in place of the latest
least_recent_year(teams) ==
    IF Years(teams) = {} THEN 2025 ELSE Min(Years(teams))

DefaultYear == 2025
\* most_recent_year = max(years) if years else 2025
most_recent_year(teams) ==
    IF Years(teams) = {} THEN DefaultYear ELSE Max(Years(teams))

\* the teams _extract_current_teams keeps of a scan
FilterCurrent(teams) ==
    IF teams # <<>> /\ Years(teams) # {}
    THEN SelectSeq(teams,
           LAMBDA t : Contains(SeasonOf(t), str(Max(Years(teams)))))
    ELSE teams

\* "if season and str(most_recent_year) in season"
IsCurrent(team, year) ==
    SeasonOf(team) # <<>> /\ Contains(SeasonOf(team), str(year))

\* the loop of _extract_past_teams that sets team['status'] on every team
Classified(teams, year) ==
    [i \in 1..Len(teams) |->
        Put(teams[i], "status",
            IF IsCurrent(teams[i], year) THEN "current" ELSE "past")]

\* the skill levels extract_player_team_history counts
NotAvailable == <<"N","/","A">>
Dash == <<"-">>
SkillValue(team) ==
    IF ~Has(team, "skill_level") THEN {}
    ELSE LET v == team.skill_level
         IN  IF IsInt(v) THEN {v.int}
             ELSE IF v.str \in {NotAvailable, Dash} THEN {}
             ELSE IF isdigit(strip(v.str)) THEN {int(strip(v.str))}
             ELSE {}
\* the skill levels without the test "1 <= skill_val <= 9"
AnyRanks(teams) ==
    UNION {SkillValue(teams[i]) : i \in 1..Len(teams)}
Ranks(teams) ==
    UNION {SkillValue(teams[i]) \cap 1..9 : i \in 1..Len(teams)}

\* the seasons extract_player_team_history counts
Seasons(teams) ==
    {strip(SeasonOf(teams[i])) :
        i \in {j \in 1..Len(teams) : /\ SeasonOf(teams[j]) # <<>>
                                     /\ SeasonOf(teams[j]) # NotAvailable
                                     /\ strip(SeasonOf(teams[j])) # <<>>}}

\* the statistics extract_player_team_history returns for all_teams
Statistics(teams) ==
    [min_skill |-> IF Ranks(teams) # {} THEN I(Min(Ranks(teams)))
                   ELSE S(NotAvailable),
     max_skill |-> IF Ranks(teams) # {} THEN I(Max(Ranks(teams)))
                   ELSE S(NotAvailable),
     seasons_played |-> Cardinality(Seasons(teams))]

(***************************************************************************)
(* The rows given to the Cell Parsers                                      *)
(***************************************************************************)
MaxPlayed == 3

NamePool == { <<"A","l","l"," ","i","n"," ","t","h","e"," ","G","a","m","e">>,
              <<"C","a","p","t","a","i","n"," ","H","o","o","k">>,
              <<"R","a","c","k"," ","E","m">> }
YearPool == { <<"2","0","2","4">>, <<"2","0","2","5">> }
SkillCells == { <<"7">>, <<"-">> }
CountCells == {str(n) : n \in 0..MaxPlayed} \cup { <<"-">> }
PercentCells == { <<"5","0",".","0","0","%">>, <<"-">> }
MvpCells == { <<"-">>, <<"3","5","t","h">> }

\* the first cell of a team-history row: <name><SeasonWord><year><Role>
FirstCell(m) == m.name \o SeasonWords[m.word] \o m.sep \o m.year \o RoleWords[m.role]
TeamRowParts == [name : NamePool, word : 1..Len(SeasonWords), sep : {<<>>, <<" ">>},
                 year : YearPool, role : 1..Len(RoleWords)]

PlayerCells == { <<"P","a","u","l"," ","S","m","i","t","h","#","1","9","1","6","2","4","3","7">>,
                 <<"J","a","c","k"," ","L","e","e">> }
PlayerLinks == { <<>>,
                 <<"/","P","h","i","l","a","d","e","l","p","h","i","a","/",
                   "m","e","m","b","e","r","/","3","2","8","7","2","8","8">> }
WonPlayedCells == {str(w) \o <<"/">> \o str(p) : w \in 0..MaxPlayed, p \in 0..MaxPlayed}
                    \cup { <<"-">> }
PpmCell == <<"2",".","5">>
PaCell == <<"1",".","2","5">>

IdleLoop ==
    /\ page = [rows |-> <<>>, divs |-> {}]
    /\ all_teams = <<>> /\ previous_count = 0
    /\ scroll_attempts = 0 /\ new_teams_added = 0 /\ sel = 0
    /\ clicked = FALSE /\ it = <<>> /\ scanned = None /\ returned = <<>>
    /\ exit = "none" /\ trouble = FALSE
IdleRun ==
    /\ attempt = 0 /\ current_teams = <<>> /\ past_teams = <<>> /\ result = None
IdleParse ==
    /\ parser = "none" /\ cells = <<>> /\ link = <<>> /\ made_of = EmptyDict
    /\ team_data = None
IdleScan ==
    /\ tables = {} /\ faulty = [query |-> {}, parse |-> {}]
    /\ handed = <<>> /\ scan_teams = <<>>
IdleExpand ==
    /\ roster = <<>> /\ players = <<>> /\ next_player = 0
    /\ visits = <<>> /\ failed = {}
IdleRetry == wait = 0 /\ tab_attempt = 0
IdleCli ==
    /\ cli = [action |-> "none"] /\ checked = "no" /\ effects = <<>>
    /\ success = "unset" /\ in_flight = "none" /\ exit_status = -1
IdleCache ==
    /\ cache_files = EmptyDict /\ now = 0 /\ written = EmptyDict
    /\ asked = None /\ got = None /\ call = [op |-> "none"]
IdleRest == IdleScan /\ IdleExpand /\ IdleRetry /\ IdleCli /\ IdleCache

InitParse ==
    /\ pc = "parse"
    /\ variant = "none"
    /\ team_data = None
    /\ \/ /\ parser \in {"player", "shared"}
          /\ made_of \in TeamRowParts
          /\ link = <<>>
          /\ \E skill \in SkillCells, played \in CountCells, won \in CountCells,
                pct \in PercentCells, mvp \in MvpCells :
                cells = <<FirstCell(made_of), skill, played, won, pct, mvp>>
       \/ /\ parser = "roster"
          /\ made_of = EmptyDict
          /\ link \in PlayerLinks
          /\ \E name \in PlayerCells, skill \in SkillCells, wp \in WonPlayedCells,
                pct \in PercentCells :
                cells = <<name, skill, wp, pct, PpmCell, PaCell>>
    /\ IdleLoop /\ IdleRun /\ IdleRest

\* one call of _extract_team_data_from_row, in either class
ParseTeamRow ==
    /\ pc = "parse" /\ parser \in {"player", "shared"}
    /\ team_data' = IF parser = "player" THEN EP_extract_team_data_from_row(cells)
                    ELSE TDE_extract_team_data_from_row_flexible(cells)
    /\ pc' = "parsed"
    /\ UNCHANGED <<restVars, parser, cells, link, made_of, loopVars, variant, attempt,
                   current_teams, past_teams, result>>

\* one call of _extract_player_data_from_row
ParseRosterRow ==
    /\ pc = "parse" /\ parser = "roster"
    /\ team_data' = ET_extract_player_data_from_row(cells, link)
    /\ pc' = "parsed"
    /\ UNCHANGED <<restVars, parser, cells, link, made_of, loopVars, variant, attempt,
                   current_teams, past_teams, result>>

NextParse == ParseTeamRow \/ ParseRosterRow
SpecParse == InitParse /\ [][NextParse]_vars

\* C7: a team-history row <name><SeasonWord><year><Role> with digit cells
\* parses to the original name, the season "<SeasonWord> <year>", the original
\* role, the numbers of the digit cells, and no mvp_rank when the MVP cell is "-".
C7_RoundTrip ==
    (pc = "parsed" /\ parser \in {"player", "shared"}
       /\ isdigit(cells[2]) /\ isdigit(cells[3]) /\ isdigit(cells[4]))
    => /\ team_data # None
       /\ Has(team_data, "name") /\ team_data.name = made_of.name
       /\ Has(team_data, "season")
       /\ team_data.season = SeasonWords[made_of.word] \o <<" ">> \o made_of.year
       /\ Has(team_data, "role") /\ team_data.role = RoleWords[made_of.role]
       /\ team_data.skill_level = I(int(cells[2]))
       /\ team_data.matches_played = int(cells[3])
       /\ team_data.matches_won = int(cells[4])
       /\ (cells[6] = <<"-">> => ~Has(team_data, "mvp_rank"))

\* C8: every record a Cell Parser produces with matches_played > 0 and
\* matches_won present has win_percentage = round(100 * won / played, 1),
\* whatever percentage the page displayed.
C8_WinPercentage ==
    (pc = "parsed" /\ team_data # None
       /\ Has(team_data, "matches_played") /\ Has(team_data, "matches_won")
       /\ team_data.matches_played > 0)
    => /\ Has(team_data, "win_percentage")
       /\ team_data.win_percentage
            = Round1(team_data.matches_won, team_data.matches_played)

(***************************************************************************)
(* One extraction of a player's teams: _extract_current_teams, then        *)
(* _extract_past_teams with its Scroll-Pagination Loop, then (shared       *)
(* variant) the statistics of extract_player_team_history                  *)
(***************************************************************************)
MaxRows == 3

EP_max_scroll_attempts == 30
TDE_max_scroll_attempts == 20
max_scroll_attempts == IF variant = "player" THEN EP_max_scroll_attempts
                       ELSE TDE_max_scroll_attempts
\* the number of load_more_selectors
EP_selectors == 9
TDE_selectors == 7
selectors == IF variant = "player" THEN EP_selectors ELSE TDE_selectors
\* extract_player_team_history(userid, league, max_retries=3)
max_retries == 3

RECURSIVE SeqsUpTo(_)
SeqsUpTo(n) == IF n = 0 THEN {<<>>}
               ELSE LET shorter == SeqsUpTo(n - 1)
                    IN  shorter \cup {Append(q, r) : q \in shorter, r \in LoopRowIds}

\* the rows a page can show: nothing yet, or the header row and team rows
\* below it
PageRows == {<<>>} \cup {<<1>> \o q : q \in SeqsUpTo(MaxRows - 1)}
Pages == {[rows |-> rows, divs |-> divs] :
             rows \in PageRows, divs \in {{}, {"Current Teams", "Past Teams"}}}
Blank == [rows |-> <<>>, divs |-> {}]

IsPrefix(p, q) == Len(p) <= Len(q) /\ SubSeq(q, 1, Len(p)) = p

\* what a scroll or a click can make of the page: rows may be appended
Reveal(pg) ==
    {[pg EXCEPT !.rows = rows] : rows \in {q \in PageRows : IsPrefix(pg.rows, q)}}

\* a scan of the page: what the Table Scanner returns, which is [] when a
\* query inside it raised
Scan(v, pg, raised) ==
    IF raised THEN <<>> ELSE extract_all_teams_from_table(v, pg)

\* extract-player is entered with the teams page loaded; the shared extractor
\* loads it itself
InitRun ==
    /\ variant \in {"player", "shared"}
    /\ IF variant = "player"
       THEN pc = "current" /\ page \in Pages /\ page.divs = {}
       ELSE pc = "start" /\ page = Blank
    /\ all_teams = <<>> /\ previous_count = 0 /\ scroll_attempts = 0
    /\ new_teams_added = 0 /\ sel = 0 /\ clicked = FALSE /\ it = <<>>
    /\ scanned = None /\ returned = <<>> /\ exit = "none" /\ trouble = FALSE
    /\ IdleRun
    /\ parser = "none" /\ cells = <<>> /\ link = <<>> /\ made_of = EmptyDict
    /\ team_data = None
    /\ IdleRest

\* _click_teams_tab(self, max_retries=3)
click_max_retries == 3

\* the attempt has failed: "if attempt < max_retries - 1: await
\* asyncio.sleep(seconds); continue", else "return None"
RetryOrGiveUp(seconds) ==
    IF attempt < max_retries - 1
    THEN /\ attempt' = attempt + 1
         /\ wait' = seconds
         /\ pc' = "start"
         /\ UNCHANGED result
    ELSE /\ result' = None
         /\ pc' = "done"
         /\ UNCHANGED <<attempt, wait>>

\* extract_player_team_history, lines 18-32 and 95-110: an attempt begins with
\* page.goto of the teams page.  A call that raises ends the attempt in the
\* except branch, which sleeps 3 s when the message names a timeout and 2 s
\* otherwise.
TDE_Navigate ==
    /\ pc = "start" /\ variant = "shared"
    /\ \E outcome \in {"loaded", "timeout", "error"} :
          IF outcome = "loaded"
          THEN /\ pc' = "tab"
               /\ UNCHANGED <<attempt, wait, result>>
          ELSE RetryOrGiveUp(IF outcome = "timeout" THEN 3 ELSE 2)
    /\ tab_attempt' = 0
    /\ UNCHANGED <<scanVars, expandVars, cliVars, cacheVars, parseVars, loopVars, variant,
                   current_teams, past_teams>>

\* _click_teams_tab: one pass of its retry loop.  A tab that is found is
\* clicked and the teams content loads; when none is found, or the pass
\* raises, another pass follows unless it was the last, which returns False
\* to extract_player_team_history (lines 35-42).
ClickTeamsTab ==
    /\ pc = "tab"
    /\ \E outcome \in {"clicked", "not_found", "timeout", "error"} :
          IF outcome = "clicked"
          THEN /\ page' \in Pages
               /\ pc' = "current"
               /\ UNCHANGED <<attempt, wait, result, tab_attempt>>
          ELSE IF tab_attempt < click_max_retries - 1
          THEN /\ tab_attempt' = tab_attempt + 1
               /\ UNCHANGED <<page, pc, attempt, wait, result>>
          ELSE /\ RetryOrGiveUp(2)
               /\ UNCHANGED <<page, tab_attempt>>
    /\ UNCHANGED <<scanVars, expandVars, cliVars, cacheVars, parseVars, all_teams, previous_count,
                   scroll_attempts, new_teams_added, sel, clicked, it, scanned,
                   returned, exit, trouble, variant, current_teams, past_teams>>

\* _extract_current_teams: one scan, filtered to the latest year it holds.
\* _extract_past_teams is called next and enters the loop, whose locals
\* start as all_teams = [], previous_count = 0, scroll_attempts = 0.
ExtractCurrentTeams ==
    /\ pc = "current"
    /\ \E raised \in BOOLEAN : \E found \in {Scan(variant, page, raised)} :
          /\ current_teams' = FilterCurrent(found)
          /\ trouble' = raised
    /\ all_teams' = <<>> /\ previous_count' = 0 /\ scroll_attempts' = 0
    /\ new_teams_added' = 0 /\ it' = <<>>
    /\ scanned' = None /\ returned' = <<>> /\ exit' = "none"
    /\ pc' = "loop"
    /\ UNCHANGED <<restVars, parseVars, page, sel, clicked, variant, attempt, past_teams,
                   result>>

\* the loop returns value: _extract_past_teams goes on with it
Return(value, how) ==
    /\ returned' = value
    /\ exit' = how
    /\ pc' = "classify"

\* extract-player, lines 520-533 and 573-576: the scan at the head of an
\* iteration, the merge, and the test for new teams
EP_Scan ==
    /\ pc = "loop" /\ variant = "player"
    /\ scroll_attempts < max_scroll_attempts
    /\ \E raised \in BOOLEAN : \E found \in {Scan(variant, page, raised)} :
          /\ all_teams' = AddNewTeams(all_teams, found)
          /\ scanned' = IF raised THEN scanned ELSE page
          /\ trouble' = (trouble \/ raised)
    /\ new_teams_added' = Len(all_teams') - Len(all_teams)
    /\ it' = <<>>
    /\ IF Len(all_teams') = previous_count
       THEN /\ pc' = "scroll"
            /\ UNCHANGED <<previous_count, scroll_attempts>>
       ELSE /\ previous_count' = Len(all_teams')
            /\ scroll_attempts' = 0
            /\ pc' = "bottom"
    /\ UNCHANGED <<restVars, parseVars, page, sel, clicked, returned, exit, variant,
                   attempt, current_teams, past_teams, result>>

\* TeamDataExtractor, lines 281-300 and 352-357: with new teams the else
\* branch sets scroll_attempts = 0 and the statement after the if adds 1
TDE_Scan ==
    /\ pc = "loop" /\ variant = "shared"
    /\ scroll_attempts < max_scroll_attempts
    /\ \E raised \in BOOLEAN : \E found \in {Scan(variant, page, raised)} :
          /\ all_teams' = AddNewTeams(all_teams, found)
          /\ scanned' = IF raised THEN scanned ELSE page
          /\ trouble' = (trouble \/ raised)
    /\ new_teams_added' = Len(all_teams') - Len(all_teams)
    /\ it' = <<>>
    /\ IF new_teams_added' = 0
       THEN /\ pc' = "scroll"
            /\ UNCHANGED scroll_attempts
       ELSE /\ scroll_attempts' = 0 + 1
            /\ pc' = "loop"
    /\ UNCHANGED <<restVars, parseVars, page, previous_count, sel, clicked, returned, exit,
                   variant, attempt, current_teams, past_teams, result>>

\* "while scroll_attempts < max_scroll_attempts" fails: the ceiling is reached
Ceiling ==
    /\ pc = "loop"
    /\ scroll_attempts >= max_scroll_attempts
    /\ Return(all_teams, "ceiling")
    /\ UNCHANGED <<restVars, parseVars, page, all_teams, previous_count, scroll_attempts,
                   new_teams_added, sel, clicked, it, scanned, trouble, variant,
                   attempt, current_teams, past_teams, result>>

\* what the except clause of the loop returns when a page call raises
OnError == IF variant = "player" THEN all_teams ELSE <<>>

\* window.scrollTo(0, document.body.scrollHeight), then the wait
ScrollToBottom ==
    /\ pc = "scroll"
    /\ \/ /\ page' \in Reveal(page)
          /\ it' = Append(it, "scroll_bottom")
          /\ sel' = 1 /\ clicked' = FALSE
          /\ pc' = "search"
          /\ UNCHANGED <<returned, exit>>
       \/ /\ Return(OnError, "error")
          /\ UNCHANGED <<page, it, sel, clicked>>
    /\ UNCHANGED <<restVars, parseVars, all_teams, previous_count, scroll_attempts,
                   new_teams_added, scanned, trouble, variant, attempt,
                   current_teams, past_teams, result>>

\* a search whose click() does not wait for the control to be visible
TrySelectorUnseen ==
    /\ pc = "search"
    /\ \E shown \in {"absent", "hidden", "visible", "raises"}, click_ok \in BOOLEAN :
          LET seen == IF sel = 1 THEN Append(it, "search") ELSE it
          IN  IF shown \in {"hidden", "visible"} /\ click_ok
              THEN /\ page' \in Reveal(page)
                   /\ clicked' = TRUE
                   /\ it' = Append(seen, "click_" \o shown)
                   /\ pc' = "lazy"
                   /\ UNCHANGED sel
              ELSE /\ it' = seen
                   /\ sel' = sel + 1
                   /\ pc' = IF sel = selectors THEN "lazy" ELSE "search"
                   /\ UNCHANGED <<page, clicked>>
    /\ UNCHANGED <<restVars, parseVars, all_teams, previous_count, scroll_attempts,
                   new_teams_added, scanned, returned, exit, trouble, variant,
                   attempt, current_teams, past_teams, result>>

\* one turn of "for selector in load_more_selectors".  shown is what the
\* page holds for the selector: no control, a hidden one or a visible one, or
\* the query raises.  extract-player calls click() on a control that is found
\* and is_visible(); the shared extractor calls it on any control that is
\* found, and click() waits for the control to be visible: on a hidden one it
\* raises when its timeout expires.  A call that raises is swallowed and the
\* next selector is tried; a click that returns ends the search.
TrySelector ==
    /\ pc = "search"
    /\ \E shown \in {"absent", "hidden", "visible", "raises"}, click_ok \in BOOLEAN :
          LET calls_click == IF variant = "player" THEN shown = "visible"
                             ELSE shown \in {"hidden", "visible"}
              seen == IF sel = 1 THEN Append(it, "search") ELSE it
          IN  IF calls_click /\ shown = "visible" /\ click_ok
              THEN /\ page' \in Reveal(page)
                   /\ clicked' = TRUE
                   /\ it' = Append(seen, "click_" \o shown)
                   /\ pc' = "lazy"
                   /\ UNCHANGED sel
              ELSE /\ it' = seen
                   /\ sel' = sel + 1
                   /\ pc' = IF sel = selectors THEN "lazy" ELSE "search"
                   /\ UNCHANGED <<page, clicked>>
    /\ UNCHANGED <<restVars, parseVars, all_teams, previous_count, scroll_attempts,
                   new_teams_added, scanned, returned, exit, trouble, variant,
                   attempt, current_teams, past_teams, result>>

\* a lazy-scroll step that leaves the retry counter as it is
EP_LazyScrollUncounted ==
    /\ pc = "lazy" /\ variant = "player"
    /\ pc' = "bottom"
    /\ UNCHANGED <<restVars, parseVars, loopVars, variant, attempt, current_teams,
                   past_teams, result>>

\* extract-player, lines 567-572: window.scrollBy(0, 500) when no button was
\* clicked, then scroll_attempts += 1
EP_LazyScroll ==
    /\ pc = "lazy" /\ variant = "player"
    /\ \/ /\ ~clicked
          /\ \/ /\ page' \in Reveal(page)
                /\ it' = Append(it, "lazy_scroll")
                /\ scroll_attempts' = scroll_attempts + 1
                /\ pc' = "bottom"
                /\ UNCHANGED <<returned, exit>>
             \/ /\ Return(OnError, "error")
                /\ UNCHANGED <<page, it, scroll_attempts>>
       \/ /\ clicked
          /\ scroll_attempts' = scroll_attempts + 1
          /\ pc' = "bottom"
          /\ UNCHANGED <<page, it, returned, exit>>
    /\ UNCHANGED <<restVars, parseVars, all_teams, previous_count, new_teams_added, sel,
                   clicked, scanned, trouble, variant, attempt, current_teams,
                   past_teams, result>>

\* TeamDataExtractor, lines 332-337: scroll to the top and back to the bottom
\* when no button was clicked
TDE_LazyScroll ==
    /\ pc = "lazy" /\ variant = "shared"
    /\ \/ /\ ~clicked
          /\ \/ /\ page' \in Reveal(page)
                /\ it' = Append(it, "lazy_scroll")
                /\ pc' = "rescan"
                /\ UNCHANGED <<returned, exit>>
             \/ /\ Return(OnError, "error")
                /\ UNCHANGED <<page, it>>
       \/ /\ clicked
          /\ pc' = "rescan"
          /\ UNCHANGED <<page, it, returned, exit>>
    /\ UNCHANGED <<restVars, parseVars, all_teams, previous_count, scroll_attempts,
                   new_teams_added, sel, clicked, scanned, trouble, variant,
                   attempt, current_teams, past_teams, result>>

\* a rescan that backs off and tries again when it finds no new team
TDE_RescanBackoff ==
    /\ pc = "rescan" /\ variant = "shared"
    /\ \E found \in {Scan(variant, page, FALSE)} :
          all_teams' = AddNewTeams(all_teams, found)
    /\ scanned' = page
    /\ new_teams_added' = Len(all_teams') - Len(all_teams)
    /\ scroll_attempts' = scroll_attempts + 1
    /\ pc' = "loop"
    /\ UNCHANGED <<restVars, parseVars, page, previous_count, sel, clicked, it, returned,
                   exit, trouble, variant, attempt, current_teams, past_teams,
                   result>>

\* TeamDataExtractor, lines 339-357: the rescan after the scroll; no new team
\* breaks out of the loop, a new team goes on with scroll_attempts += 1
TDE_Rescan ==
    /\ pc = "rescan" /\ variant = "shared"
    /\ \E raised \in BOOLEAN : \E found \in {Scan(variant, page, raised)} :
          /\ all_teams' = AddNewTeams(all_teams, found)
          /\ scanned' = IF raised THEN scanned ELSE page
          /\ trouble' = (trouble \/ raised)
    /\ new_teams_added' = Len(all_teams') - Len(all_teams)
    /\ IF new_teams_added' = 0
       THEN /\ Return(all_teams', "no_new")
            /\ UNCHANGED scroll_attempts
       ELSE /\ scroll_attempts' = scroll_attempts + 1
            /\ pc' = "loop"
            /\ UNCHANGED <<returned, exit>>
    /\ UNCHANGED <<restVars, parseVars, page, previous_count, sel, clicked, it, variant,
                   attempt, current_teams, past_teams, result>>

\* extract-player, lines 578-581: _is_at_bottom_of_page, which answers True
\* also when its page call raises
EP_IsAtBottom ==
    /\ pc = "bottom" /\ variant = "player"
    /\ \E at_bottom \in BOOLEAN :
          IF at_bottom THEN Return(all_teams, "bottom")
          ELSE pc' = "loop" /\ UNCHANGED <<returned, exit>>
    /\ UNCHANGED <<restVars, parseVars, page, all_teams, previous_count, scroll_attempts,
                   new_teams_added, sel, clicked, it, scanned, trouble, variant,
                   attempt, current_teams, past_teams, result>>

\* the locals of _scroll_and_extract_past_teams are gone when it has returned
LoopLeft ==
    /\ previous_count' = 0 /\ scroll_attempts' = 0 /\ new_teams_added' = 0
    /\ sel' = 0 /\ clicked' = FALSE /\ it' = <<>>

\* _extract_past_teams after the loop has returned: the Season Classifier.
\* It sets the status of every team of the list and returns the past ones.
ExtractPastTeams ==
    /\ pc = "classify"
    /\ \E year \in {most_recent_year(returned)} :
          all_teams' = Classified(returned, year)
    /\ past_teams' = SelectSeq(all_teams', LAMBDA t : t.status = "past")
    /\ pc' = IF variant = "player" THEN "done" ELSE "aggregate"
    /\ LoopLeft
    /\ UNCHANGED <<restVars, parseVars, page, scanned, returned, exit, trouble, variant,
                   attempt, current_teams, result>>

\* extract_player_team_history, lines 48-93: all_teams = current + past.  No
\* team at all ends the attempt: another one follows unless it was the last,
\* which returns None.  Else the statistics are returned.
AggregateOnce ==
    /\ pc = "aggregate"
    /\ IF current_teams \o past_teams # <<>>
       THEN result' = Statistics(current_teams \o past_teams)
       ELSE result' = None
    /\ pc' = "done"
    /\ UNCHANGED <<attempt, wait>>
    /\ UNCHANGED <<scanVars, expandVars, cliVars, cacheVars, tab_attempt, parseVars, loopVars, variant,
                   current_teams, past_teams>>

Aggregate ==
    /\ pc = "aggregate"
    /\ IF current_teams \o past_teams # <<>>
       THEN /\ result' = Statistics(current_teams \o past_teams)
            /\ pc' = "done"
            /\ UNCHANGED <<attempt, wait>>
       ELSE RetryOrGiveUp(2)
    /\ UNCHANGED <<scanVars, expandVars, cliVars, cacheVars, tab_attempt, parseVars, loopVars, variant,
                   current_teams, past_teams>>

Next ==
    \/ TDE_Navigate \/ ClickTeamsTab \/ ExtractCurrentTeams
    \/ EP_Scan \/ TDE_Scan \/ Ceiling
    \/ ScrollToBottom \/ TrySelector
    \/ EP_LazyScroll \/ TDE_LazyScroll
    \/ TDE_Rescan \/ EP_IsAtBottom
    \/ ExtractPastTeams \/ Aggregate

Spec == InitRun /\ [][Next]_vars
\* The extraction is one coroutine that runs on until it has returned: its
\* position keeps changing until it is "done".  Next is enabled at every
\* position but "done" and takes finitely many steps in a row that leave the
\* position as it is (a selector tried, a scan that merged a new team), so
\* this is the same condition as WF_vars(Next).
Positions == {"start", "tab", "current", "loop", "scroll", "search", "lazy", "rescan",
              "bottom", "classify", "aggregate", "done"}
Advance == pc # "done" /\ pc' \in Positions
FairSpec == Spec /\ WF_pc(Advance)

(***************************************************************************)
(* Properties of the Scroll-Pagination Loop                                *)
(***************************************************************************)
NoDuplicate(teams) ==
    \A i, j \in 1..Len(teams) : SameTeam(teams[i], teams[j]) => i = j

\* C1: in both variants the merged list never holds two records with the
\* same (name, season), and a scan of page content that is the content of
\* the latest merged scan leaves the list, and so its length, as it is.
C1_MergeIsIdempotent ==
    /\ [](NoDuplicate(all_teams))
    /\ [][(pc \in {"loop", "rescan"} /\ scanned = page) => all_teams' = all_teams]_vars

\* extract-player has scanned a page with two rows of one team, merged one
\* record, and scanned the same content again without a new record
C1_Witness ==
    /\ variant = "player" /\ pc = "scroll"
    /\ scanned = page /\ Len(page.rows) = 3 /\ page.rows[2] = page.rows[3]
    /\ Len(all_teams) = 1 /\ new_teams_added = 0 /\ scroll_attempts = 0

\* C2: whenever an iteration begins after the latest scan or rescan merged
\* new records, the retry counter is 0.
C2_CounterResets ==
    (pc = "loop" /\ new_teams_added > 0) => scroll_attempts = 0

\* C3: the loop, once entered, returns; the retry counter never passes the
\* ceiling (30 in extract-player, 20 in TeamDataExtractor); and a return at
\* the bottom sentinel, at the ceiling or after a rescan without new records
\* hands back the merged list.
C3_LoopTerminates ==
    /\ (pc = "loop") ~> (pc = "classify")
    /\ [](scroll_attempts <= max_scroll_attempts)
    /\ [](pc = "classify" =>
            /\ exit \in {"bottom", "ceiling", "no_new", "error"}
            /\ exit # "error" => returned = all_teams)

\* extract-player left the loop at its ceiling of 30 attempts with a team
C3_Witness ==
    /\ variant = "player" /\ pc = "classify" /\ exit = "ceiling"
    /\ scroll_attempts = EP_max_scroll_attempts /\ returned # <<>>

\* C4: in TeamDataExtractor a rescan that adds no record, made after a scan
\* that added none, ends the loop in that step with the merged list, whatever
\* the retry counter.
C4_RescanEndsLoop ==
    /\ [](pc = "rescan" => variant = "shared" /\ new_teams_added = 0)
    /\ [][(pc = "rescan" /\ all_teams' = all_teams)
            => (pc' = "classify" /\ exit' = "no_new" /\ returned' = all_teams)]_vars

\* the loop ended that way with the counter at 2, after two rescans found the
\* two teams
C4_Witness ==
    /\ variant = "shared" /\ pc = "classify" /\ exit = "no_new"
    /\ scroll_attempts = 2 /\ Len(returned) = 2

ScrollThenClick == <<"scroll_bottom", "search", "click_visible">>
ScrollThenLazy == <<"scroll_bottom", "search", "lazy_scroll">>
\* C5: the steps of a non-productive iteration are the scroll to the bottom,
\* then the search, then either one click of a visible control or, exactly
\* when nothing was clicked, the lazy-load scroll.
C5_StepOrder ==
    /\ IsPrefix(it, ScrollThenClick) \/ IsPrefix(it, ScrollThenLazy)
    /\ (pc \in {"bottom", "rescan"} /\ it # <<>>) =>
          \/ clicked /\ it = ScrollThenClick
          \/ ~clicked /\ it = ScrollThenLazy

\* extract-player clicked the control of a later selector after earlier
\* selectors gave nothing to click
C5_Witness ==
    /\ variant = "player" /\ pc = "bottom" /\ it = ScrollThenClick /\ sel > 1

\* the seasons of the records the page holds
PageSeasons ==
    {SeasonOf(t) : t \in {extract_all_teams_from_table(variant, page)[i] :
                             i \in 1..Len(extract_all_teams_from_table(variant, page))}}
       \ {<<>>}
\* C10: when no scan and no scroll raised, seasons_played is the number of
\* distinct non-empty seasons over every record the page holds.
C10_SeasonsPlayed ==
    (/\ pc = "done" /\ variant = "shared" /\ result # None
     /\ ~trouble /\ exit # "error")
    => result.seasons_played = Cardinality(PageSeasons)

(***************************************************************************)
(* The Season Classifier on merged lists of every shape                    *)
(***************************************************************************)
MaxTeams == 3

HotShots == <<"H","o","t"," ","S","h","o","t","s">>
Fall(year) == SeasonWords[1] \o <<" ">> \o str(year)
Spring(year) == SeasonWords[2] \o <<" ">> \o str(year)
\* seasons a record can carry: none, an empty or a placeholder text, one
\* year, two years
SeasonPool == {<<>>, NotAvailable, Fall(2023), Fall(2024), Spring(2025),
               str(2024) \o <<"-">> \o str(2025)}
TeamPool == {[name |-> HotShots]}
              \cup {[name |-> HotShots, season |-> season] : season \in SeasonPool}

RECURSIVE ListsUpTo(_, _)
ListsUpTo(pool, n) ==
    IF n = 0 THEN {<<>>}
    ELSE LET shorter == ListsUpTo(pool, n - 1)
         IN  shorter \cup {Append(q, t) : q \in shorter, t \in pool}

\* the loop has returned a merged list
InitClassify ==
    /\ variant \in {"player", "shared"}
    /\ pc = "classify"
    /\ returned \in {q \in ListsUpTo(TeamPool, MaxTeams) : NoDuplicate(q)}
    /\ all_teams = returned
    /\ exit \in {"bottom", "no_new"} /\ (exit = "bottom" <=> variant = "player")
    /\ page = Blank /\ previous_count = Len(returned) /\ scroll_attempts = 0
    /\ new_teams_added = 0 /\ sel = 0 /\ clicked = FALSE /\ it = <<>>
    /\ scanned = None /\ trouble = FALSE
    /\ IdleRun
    /\ parser = "none" /\ cells = <<>> /\ link = <<>> /\ made_of = EmptyDict
    /\ team_data = None
    /\ IdleRest

NextClassify == ExtractPastTeams
SpecClassify == InitClassify /\ [][NextClassify]_vars

\* the years the classifier finds: the first 20xx of each season that has one
YearsFound ==
    {YearOf(SeasonOf(returned[i])) :
        i \in {j \in 1..Len(returned) : YearSearch(SeasonOf(returned[j])).found}}
\* C6: the classifier labels a record current exactly when its season
\* contains the greatest year found in the seasons of all the records; every
\* other record, one without a season or a year among them, is past, and so
\* is every record when no season has a year.  past_teams are the past ones.
C6_Classifier ==
    pc \in {"done", "aggregate"} =>
       /\ Len(all_teams) = Len(returned)
       /\ \A i \in 1..Len(returned) :
             /\ all_teams[i].status \in {"current", "past"}
             /\ all_teams[i].status = "current" <=>
                   /\ YearsFound # {}
                   /\ Contains(SeasonOf(returned[i]), str(Max(YearsFound)))
             /\ all_teams[i] = Put(returned[i], "status", all_teams[i].status)
       /\ past_teams = SelectSeq(all_teams, LAMBDA t : t.status = "past")

\* records of 2023, 2024 and 2025: the one of 2025 is current
C6_Witness ==
    /\ pc \in {"done", "aggregate"}
    /\ Len(returned) = 3
    /\ SeasonOf(returned[1]) = Fall(2023) /\ SeasonOf(returned[2]) = Fall(2024)
    /\ SeasonOf(returned[3]) = Spring(2025)
    /\ all_teams[1].status = "past" /\ all_teams[2].status = "past"
    /\ all_teams[3].status = "current"
    /\ Len(past_teams) = 2

(***************************************************************************)
(* The statistics of extract_player_team_history on team lists of every    *)
(* shape                                                                   *)
(***************************************************************************)
MaxCurrent == 1
MaxPast == 4

\* what a record can carry as skill_level: nothing, a number in or out of
\* 1..9, or the placeholder the statistics code provides for
SkillPool == {I(3), I(5), I(7), I(11), S(NotAvailable)}
\* the record of the k-th season before 2025, with or without a skill level
TeamOf(k, status) ==
    {[name |-> HotShots, season |-> Fall(2025 - k), status |-> status]}
      \cup {[name |-> HotShots, season |-> Fall(2025 - k), status |-> status,
             skill_level |-> v] : v \in SkillPool}
RECURSIVE PastLists(_)
PastLists(n) ==
    IF n = 0 THEN {<<>>}
    ELSE LET shorter == PastLists(n - 1)
         IN  shorter \cup {Append(q, t) : q \in {r \in shorter : Len(r) = n - 1},
                                          t \in TeamOf(n, "past")}

\* _extract_current_teams and _extract_past_teams have returned their lists
InitAggregate ==
    /\ variant = "shared"
    /\ pc = "aggregate"
    /\ current_teams \in ListsUpTo(TeamOf(0, "current"), MaxCurrent)
    /\ past_teams \in PastLists(MaxPast)
    /\ attempt = 0 /\ result = None
    /\ IdleLoop
    /\ parser = "none" /\ cells = <<>> /\ link = <<>> /\ made_of = EmptyDict
    /\ team_data = None
    /\ IdleRest

NextAggregate == Aggregate
SpecAggregate == InitAggregate /\ [][NextAggregate]_vars

\* the skill levels of the records that are integers within 1..9
Qualifying ==
    {v \in 1..9 : \E i \in 1..Len(current_teams \o past_teams) :
                     /\ Has((current_teams \o past_teams)[i], "skill_level")
                     /\ (current_teams \o past_teams)[i].skill_level = I(v)}
\* C9: min_skill and max_skill are the least and the greatest skill level
\* that is an integer within 1..9 over the current and past records; absent,
\* placeholder and out-of-range values do not count, and both are 'N/A' when
\* no value qualifies.
C9_MinMaxSkill ==
    (pc = "done" /\ result # None) =>
       IF Qualifying = {}
       THEN result.min_skill = S(NotAvailable) /\ result.max_skill = S(NotAvailable)
       ELSE result.min_skill = I(Min(Qualifying)) /\ result.max_skill = I(Max(Qualifying))

\* the skill levels 3, 7, 11, 'N/A', 5 give min 3 and max 7
C9_Witness ==
    /\ pc = "done" /\ result # None
    /\ Len(current_teams \o past_teams) = 5
    /\ \A i \in 1..5 : Has((current_teams \o past_teams)[i], "skill_level")
    /\ [i \in 1..5 |-> (current_teams \o past_teams)[i].skill_level]
          = <<I(3), I(7), I(11), S(NotAvailable), I(5)>>
    /\ result.min_skill = I(3) /\ result.max_skill = I(7)


(***************************************************************************)
(* One scan of a Table Scanner, row by row                                 *)
(***************************************************************************)
MaxScanRows == 3

\* the row list a scan walks, as indexes of page.rows: extract-player's
\* table_rows, the shared extractor's unique_rows (all_rows, since id() tells
\* every element handle apart)
EP_table_rows(pg) == [i \in 1..Len(pg.rows) |-> i]
TDE_unique_rows(pg) ==
    LET Rows(list) ==
            list \o list
            \o (IF "Current Teams" \in pg.divs THEN list ELSE <<>>)
            \o (IF "Past Teams" \in pg.divs THEN list ELSE <<>>)
    IN  Rows(EP_table_rows(pg))
scan_rows(v, pg) == IF v = "player" THEN EP_table_rows(pg) ELSE TDE_unique_rows(pg)

\* "if len(cells) >= 6" (extract-player), "if len(cells) >= 2" (shared)
min_cells(v) == IF v = "player" THEN 6 ELSE 2
row_record(v, r) == IF v = "player" THEN EP_Row[r] ELSE TDE_Row[r]
is_valid_team_data(v, d) ==
    IF v = "player" THEN EP_is_valid_team_data(d) ELSE TDE_is_valid_team_data(d)

\* the part of the row list the loop gets through: it stops at the first row
\* after the skipped one whose query_selector_all('td') raises
Walked(list, f) ==
    LET Stop(bad) == IF bad = {} THEN list ELSE SubSeq(list, 1, Least(bad) - 1)
    IN  Stop({k \in 2..Len(list) : list[k] \in f.query})

\* the rows handed to the Cell Parser, in order
handed_rows(v, pg, f) ==
    LET Pick(list) ==
            LET ks == SelectSeq([k \in 1..Len(list) |-> k],
                                LAMBDA k : /\ k # 1
                                           /\ Len(RowPool[pg.rows[list[k]]]) >= min_cells(v))
            IN  [j \in 1..Len(ks) |-> list[ks[j]]]
    IN  Pick(Walked(scan_rows(v, pg), f))

\* _extract_all_teams_from_table: a raise at the query of a row's cells leaves
\* the loop for "except: return []"; a raise inside the Cell Parser is caught
\* there and the parser returns None
scan_table(v, pg, f) ==
    LET Teams(list, walked) ==
            IF Len(walked) < Len(list) THEN <<>>
            ELSE LET kept == SelectSeq(handed_rows(v, pg, f),
                                       LAMBDA i : /\ i \notin f.parse
                                                  /\ row_record(v, pg.rows[i]) # None
                                                  /\ is_valid_team_data(v, row_record(v, pg.rows[i])))
                 IN  [j \in 1..Len(kept) |-> row_record(v, pg.rows[kept[j]])]
        Go(list) == Teams(list, Walked(list, f))
    IN  Go(scan_rows(v, pg))

RECURSIVE RowSeqs(_)
RowSeqs(n) == IF n = 0 THEN {<<>>}
              ELSE LET shorter == RowSeqs(n - 1)
                   IN  shorter \cup {Append(q, r) : q \in shorter, r \in RowIds}
NoFault == [query |-> {}, parse |-> {}]
\* at most one row of the page fails, at its query or in its parse
Faults(n) == {NoFault} \cup {[query |-> {i}, parse |-> {}] : i \in 1..n}
                       \cup {[query |-> {}, parse |-> {i}] : i \in 1..n}
\* where the tables of a page of n rows can begin
TableStarts(n) == IF n = 0 THEN {{}} ELSE {{1} \cup more : more \in SUBSET (2..n)}

InitScan ==
    /\ pc = "scan"
    /\ variant \in {"player", "shared"}
    /\ \E rows \in RowSeqs(MaxScanRows), divs \in {{}, {"Current Teams", "Past Teams"}} :
          page = [rows |-> rows, divs |-> divs]
    /\ tables \in TableStarts(Len(page.rows))
    /\ faulty \in Faults(Len(page.rows))
    /\ handed = <<>> /\ scan_teams = <<>>
    /\ all_teams = <<>> /\ previous_count = 0 /\ scroll_attempts = 0
    /\ new_teams_added = 0 /\ sel = 0 /\ clicked = FALSE /\ it = <<>>
    /\ scanned = None /\ returned = <<>> /\ exit = "none" /\ trouble = FALSE
    /\ IdleRun /\ IdleParse /\ IdleExpand /\ IdleRetry /\ IdleCli /\ IdleCache

\* one call of _extract_all_teams_from_table
ScanTable ==
    /\ pc = "scan"
    /\ handed' = handed_rows(variant, page, faulty)
    /\ scan_teams' = scan_table(variant, page, faulty)
    /\ pc' = "scanned"
    /\ UNCHANGED <<parseVars, loopVars, variant, attempt, current_teams,
                   past_teams, result, tables, faulty, expandVars, retryVars, cliVars, cacheVars>>

NextScan == ScanTable
SpecScan == InitScan /\ [][NextScan]_vars

Range(q) == {q[i] : i \in 1..Len(q)}
HasDenylistName(d) ==
    Has(d, "name") /\ \E skip \in skip_names : Contains(lower(d.name), skip)

\* C12: the Row Validator rejects every candidate record whose name contains
\* a denylist phrase, in any letter case, so no record a Table Scanner
\* returns has such a name.
C12_DenylistFiltered ==
    pc = "scanned" =>
        /\ \A i \in Range(handed) :
              (row_record(variant, page.rows[i]) # None
                 /\ HasDenylistName(row_record(variant, page.rows[i])))
              => ~is_valid_team_data(variant, row_record(variant, page.rows[i]))
        /\ \A j \in 1..Len(scan_teams) : ~HasDenylistName(scan_teams[j])

\* C13: the first row of every table of the page is excluded from parsing.
C13_FirstRowOfEachTable ==
    pc = "scanned" => tables \cap Range(handed) = {}

\* C14: within one scan each row of the page is parsed at most once and
\* contributes at most one record to the list the scan returns.
C14_RowParsedOnce ==
    pc = "scanned" =>
        /\ \A j, k \in 1..Len(handed) : handed[j] = handed[k] => j = k
        /\ Len(scan_teams) <= Cardinality(Range(handed))

\* C15: a failure while one row is processed, at the query of its cells or in
\* its parse, skips that row alone: the scan returns what it returns when the
\* failing row is simply passed over.
C15_BadRowSkipped ==
    pc = "scanned" =>
        scan_teams = scan_table(variant, page,
                                [query |-> {}, parse |-> faulty.query \cup faulty.parse])

\* every record of the list has a name, and the name is not empty
Named(list) == \A i \in 1..Len(list) : Has(list[i], "name") /\ list[i].name # <<>>

\* C11: no record with an absent or empty name is returned by a Table
\* Scanner, merged by a Scroll-Pagination Loop, or placed in current_teams or
\* past_teams.
C11_NoNamelessRecord ==
    /\ variant \in {"player", "shared"}
          => Named(extract_all_teams_from_table(variant, page))
    /\ Named(all_teams) /\ Named(returned)
    /\ Named(current_teams) /\ Named(past_teams)
C11_Witness ==
    /\ variant = "shared" /\ pc = "scroll" /\ scanned = page
    /\ 5 \in Range(page.rows) /\ 2 \in Range(page.rows)
    /\ Len(all_teams) = 1

(***************************************************************************)
(* Player expansion: ExtractTeamAction._expand_player_data                 *)
(***************************************************************************)
MaxPlayers == 3

PaulSmith == <<"P","a","u","l"," ","S","m","i","t","h">>
JackLee == <<"J","a","c","k"," ","L","e","e">>
\* two names that hold none of the texts of the roster validator's denylist
TomReed == <<"T","o","m"," ","R","e","e","d">>
KimLund == <<"K","i","m"," ","L","u","n","d">>
\* roster players as the roster parser leaves them: some with a userid
PlayerPool == {
    Put(Put(EmptyDict, "name", TomReed), "userid", UserId),
    Put(Put(EmptyDict, "name", KimLund), "userid", <<"7","7">>),
    Put(EmptyDict, "name", KimLund) }
RECURSIVE Rosters(_)
Rosters(n) == IF n = 0 THEN {<<>>}
              ELSE LET shorter == Rosters(n - 1)
                   IN  shorter \cup {Append(q, pl) : q \in shorter, pl \in PlayerPool}

\* what one call of extract_player_team_history can come to: statistics, None
\* after its retries, or an exception
HistoryOutcomes ==
    { [kind |-> "stats",
       value |-> [min_skill |-> I(3), max_skill |-> I(7), seasons_played |-> I(2)]],
      [kind |-> "stats",
       value |-> [min_skill |-> S(NotAvailable), max_skill |-> S(NotAvailable),
                  seasons_played |-> I(1)]],
      [kind |-> "none"], [kind |-> "raise"] }

\* player['min_skill'] = player['max_skill'] = player['seasons_played'] = 'N/A'
NoHistory ==
    [min_skill |-> S(NotAvailable), max_skill |-> S(NotAvailable),
     seasons_played |-> S(NotAvailable)]

InitExpand ==
    /\ pc = "expand"
    /\ variant = "none"
    /\ roster \in Rosters(MaxPlayers)
    /\ players = roster
    /\ next_player = 1
    /\ visits = <<>> /\ failed = {}
    /\ IdleLoop /\ IdleRun /\ IdleParse /\ IdleScan /\ IdleRetry /\ IdleCli /\ IdleCache

\* a failed extraction ends the batch: the players after it are not visited
ExpandPlayerOrStop ==
    /\ pc = "expand" /\ next_player <= Len(players)
    /\ IF ~Has(players[next_player], "userid")
       THEN /\ next_player' = next_player + 1
            /\ UNCHANGED <<players, visits, failed, pc>>
       ELSE /\ visits' = Append(visits, players[next_player].userid)
            /\ \E out \in HistoryOutcomes :
                  IF out.kind = "stats"
                  THEN /\ players' = [players EXCEPT ![next_player] = out.value @@ @]
                       /\ next_player' = next_player + 1
                       /\ UNCHANGED <<failed, pc>>
                  ELSE /\ failed' = failed \cup {next_player}
                       /\ pc' = "expanded"
                       /\ UNCHANGED <<players, next_player>>
    /\ UNCHANGED <<parseVars, loopVars, variant, attempt, current_teams,
                   past_teams, result, scanVars, retryVars, cliVars, cacheVars, roster>>

\* one iteration of "for i, player in enumerate(team_data['players'], 1)"
ExpandPlayer ==
    /\ pc = "expand" /\ next_player <= Len(players)
    /\ IF ~Has(players[next_player], "userid")
       THEN UNCHANGED <<players, visits, failed>>
       ELSE /\ visits' = Append(visits, players[next_player].userid)
            /\ \E out \in HistoryOutcomes :
                  IF out.kind = "stats"
                  THEN /\ players' = [players EXCEPT ![next_player] = out.value @@ @]
                       /\ UNCHANGED failed
                  ELSE /\ players' = [players EXCEPT ![next_player] = NoHistory @@ @]
                       /\ failed' = failed \cup {next_player}
    /\ next_player' = next_player + 1
    /\ UNCHANGED <<parseVars, loopVars, variant, attempt, current_teams,
                   past_teams, result, scanVars, retryVars, cliVars, cacheVars, roster, pc>>

\* the loop is over: "return team_data"
ExpandReturn ==
    /\ pc = "expand" /\ next_player > Len(players)
    /\ pc' = "expanded"
    /\ UNCHANGED <<parseVars, loopVars, variant, attempt, current_teams,
                   past_teams, result, scanVars, retryVars, cliVars, cacheVars, expandVars>>

NextExpand == ExpandPlayer \/ ExpandReturn
SpecExpand == InitExpand /\ [][NextExpand]_vars

\* the user ids of the first n players of the roster that have one, in order
UserIds(n) ==
    LET with == SelectSeq([i \in 1..n |-> i], LAMBDA i : Has(roster[i], "userid"))
    IN  [k \in 1..Len(with) |-> roster[with[k]].userid]

\* C16: a player whose team-history extraction failed gets min_skill,
\* max_skill and seasons_played 'N/A'; the players are visited one after
\* another in roster order, every one that has a user id; the roster keeps its
\* length and order.
C16_ExpansionContinues ==
    /\ \A i \in failed :
          \A k \in {"min_skill", "max_skill", "seasons_played"} :
             Has(players[i], k) /\ players[i][k] = S(NotAvailable)
    /\ Len(players) = Len(roster)
    /\ \A i \in 1..Len(roster) :
          \A k \in DOMAIN roster[i] : Has(players[i], k) /\ players[i][k] = roster[i][k]
    /\ pc = "expand" => visits = UserIds(next_player - 1)
    /\ pc = "expanded" => visits = UserIds(Len(roster))
C16_Witness ==
    /\ pc = "expanded" /\ Len(roster) = 3
    /\ 1 \in failed /\ 2 \notin failed /\ Len(visits) = 2
    /\ Has(players[3], "min_skill")

(***************************************************************************)
(* The retries of extract_player_team_history                              *)
(***************************************************************************)
\* at most max_retries attempts; each further attempt begins at the
\* navigation; a successful attempt returns its statistics at once; None is
\* returned by the last allowed attempt only; _click_teams_tab makes at most
\* click_max_retries passes
BoundedRetries ==
    /\ [](attempt <= max_retries - 1 /\ tab_attempt <= click_max_retries - 1)
    /\ [][attempt' # attempt => (attempt' = attempt + 1 /\ pc' = "start")]_vars
    /\ [][(pc = "aggregate" /\ current_teams \o past_teams # <<>>)
             => (pc' = "done" /\ result' # None /\ attempt' = attempt)]_vars
    /\ [][(variant = "shared" /\ pc # "done" /\ pc' = "done" /\ result' = None)
             => attempt = max_retries - 1]_vars
    /\ [][pc = "done" => (pc' = "done" /\ attempt' = attempt)]_vars

\* C17 (as amended): extract_player_team_history makes at most 3 attempts,
\* each from the navigation on, returns at once on the first success and
\* returns None only when the last attempt has failed; the Teams-tab click is
\* tried at most 3 times per attempt; the wait before a further attempt is 2
\* seconds, or 3 seconds after a navigation timeout, whatever the attempt's
\* number.
C17_RetriesWithWait ==
    /\ BoundedRetries
    /\ [](wait \in {0, 2, 3} /\ (wait = 0 <=> attempt = 0))
    /\ [][attempt' # attempt => wait' \in {2, 3}]_vars
C17_Witness ==
    /\ pc = "done" /\ result # None /\ attempt = max_retries - 1
    /\ wait = 3 /\ tab_attempt = click_max_retries - 1

\* C17 as stated: the same, with one fixed wait between consecutive attempts.
C17_FixedWait ==
    /\ BoundedRetries
    /\ [][wait # 0 => wait' = wait]_vars

(***************************************************************************)
(* One run of the command line: main, action.run, _run_with_session and    *)
(* the _run_async of extract-player and extract-team                       *)
(***************************************************************************)
Extractions == {"extract-player", "extract-team"}
OtherActions == {"login", "verify-session", "clear-state"}
\* what can come out of a call: it completes, or it raises
Raises == {"Exception", "KeyboardInterrupt"}

notCli == <<parseVars, loopVars, variant, attempt, current_teams, past_teams,
            result, scanVars, expandVars, retryVars, cacheVars>>

InitCli ==
    /\ pc = "main"
    /\ variant = "none"
    /\ cli \in [action : Extractions \cup OtherActions \cup {"unknown"},
                session : BOOLEAN, no_cache : BOOLEAN, cached : BOOLEAN,
                output_file : BOOLEAN]
    /\ checked = "no" /\ effects = <<>>
    /\ success = "unset" /\ in_flight = "none" /\ exit_status = -1
    /\ IdleLoop /\ IdleRun /\ IdleParse /\ IdleScan /\ IdleExpand /\ IdleRetry
    /\ IdleCache

\* action.run(...) returns value to main
Returns(value) ==
    /\ success' = value
    /\ pc' = "returned"
    /\ UNCHANGED in_flight

\* an exception leaves action.run for main
Propagates(kind) ==
    /\ in_flight' = kind
    /\ pc' = "raised"
    /\ UNCHANGED success

\* a step of _run_async raises: "except Exception: return False" of the
\* method catches an Exception; a KeyboardInterrupt passes it and the
\* "except Exception" of _run_with_session
AsyncRaises(kind) ==
    IF kind = "Exception" THEN Returns("False") ELSE Propagates(kind)

\* main, lines 154-191: the action is chosen
MainDispatch ==
    /\ pc = "main"
    /\ IF cli.action = "unknown"
       THEN exit_status' = 1 /\ pc' = "exited"
       ELSE pc' = "run" /\ UNCHANGED exit_status
    /\ UNCHANGED <<notCli, cli, checked, effects, success, in_flight>>

\* run() of login, verify-session and clear-state: it returns what its
\* _run_async returned, or False when the user gave no input, or raises
RunOtherAction ==
    /\ pc = "run" /\ cli.action \in OtherActions
    /\ \E outcome \in {"True", "False"} \cup Raises :
          IF outcome \in Raises THEN Propagates(outcome) ELSE Returns(outcome)
    /\ UNCHANGED <<notCli, cli, checked, effects, exit_status>>

\* run() of extract-player and extract-team up to _run_with_session: the id
\* is read and validated
RunExtraction ==
    /\ pc = "run" /\ cli.action \in Extractions
    /\ \E outcome \in {"valid", "invalid"} \cup Raises :
          IF outcome \in Raises THEN Propagates(outcome)
          ELSE IF outcome = "invalid" THEN Returns("False")
          ELSE pc' = "wrapped" /\ UNCHANGED <<success, in_flight>>
    /\ UNCHANGED <<notCli, cli, checked, effects, exit_status>>

\* BaseAction._run_with_session: asyncio.run(self._run_async(...)) inside
\* "except Exception: return False"
RunWithSession ==
    /\ pc = "wrapped"
    /\ \E outcome \in {"started"} \cup Raises :
          IF outcome = "started" THEN pc' = "cache" /\ UNCHANGED <<success, in_flight>>
          ELSE IF outcome = "Exception" THEN Returns("False")
          ELSE Propagates(outcome)
    /\ UNCHANGED <<notCli, cli, checked, effects, exit_status>>

\* the cache is read and the run goes on to the browser whatever it holds
CheckCacheAndGoOn ==
    /\ pc = "cache"
    /\ effects' = IF cli.no_cache THEN effects ELSE Append(effects, "cache_read")
    /\ pc' = "browser"
    /\ UNCHANGED <<notCli, cli, checked, exit_status, success, in_flight>>

\* _run_async: "Check cache first"; a valid entry is displayed, saved when a
\* file was asked for, and the run is over
CheckCache ==
    /\ pc = "cache"
    /\ IF cli.no_cache
       THEN pc' = "browser" /\ UNCHANGED <<effects, success, in_flight>>
       ELSE \E outcome \in {"read"} \cup Raises :
               IF outcome \in Raises
               THEN /\ AsyncRaises(outcome)
                    /\ effects' = Append(effects, "cache_read")
               ELSE IF ~cli.cached
               THEN /\ effects' = Append(effects, "cache_read")
                    /\ pc' = "browser" /\ UNCHANGED <<success, in_flight>>
               ELSE IF cli.output_file
               THEN /\ effects' = effects \o <<"cache_read", "display", "save">>
                    /\ \E saved \in {"True", "False"} : Returns(saved)
               ELSE /\ effects' = effects \o <<"cache_read", "display">>
                    /\ Returns("True")
    /\ UNCHANGED <<notCli, cli, checked, exit_status>>

\* the session check does not end the run: it goes on to the target page
CheckSessionAndGoOn ==
    /\ pc = "browser"
    /\ effects' = effects \o <<"start_browser", "session_check">>
    /\ checked' = IF cli.session THEN "found" ELSE "none"
    /\ pc' = "navigate"
    /\ UNCHANGED <<notCli, cli, exit_status, success, in_flight>>

\* _run_async: start_browser, then "if not await is_authenticated(): return
\* False"
CheckSession ==
    /\ pc = "browser"
    /\ \E outcome \in {"asked"} \cup Raises :
          IF outcome \in Raises
          THEN /\ AsyncRaises(outcome) /\ UNCHANGED checked
               \* start_browser raised, or is_authenticated did
               /\ \E started \in BOOLEAN :
                     effects' = IF started
                                THEN Append(effects, "start_browser")
                                ELSE effects
          ELSE /\ effects' = effects \o <<"start_browser", "session_check">>
               /\ IF cli.session
                  THEN /\ checked' = "found"
                       /\ pc' = "navigate" /\ UNCHANGED <<success, in_flight>>
                  ELSE /\ checked' = "none"
                       /\ Returns("False")
    /\ UNCHANGED <<notCli, cli, exit_status>>

\* _run_async: handle_notifications, page.goto(target), wait_for_load_state
Navigate ==
    /\ pc = "navigate"
    /\ \E outcome \in {"loaded"} \cup Raises :
          IF outcome \in Raises
          THEN AsyncRaises(outcome) /\ UNCHANGED effects
          ELSE /\ effects' = Append(effects, "navigate")
               /\ pc' = "extract" /\ UNCHANGED <<success, in_flight>>
    /\ UNCHANGED <<notCli, cli, checked, exit_status>>

\* _run_async: the extraction; "if not player_data: return False"
ExtractData ==
    /\ pc = "extract"
    /\ \E outcome \in {"data", "nothing"} \cup Raises :
          IF outcome \in Raises
          THEN AsyncRaises(outcome) /\ UNCHANGED effects
          ELSE /\ effects' = Append(effects, "extract")
               /\ IF outcome = "data"
                  THEN pc' = "store" /\ UNCHANGED <<success, in_flight>>
                  ELSE Returns("False")
    /\ UNCHANGED <<notCli, cli, checked, exit_status>>

\* _run_async: cache_data unless no_cache, display, save when a file was
\* asked for, "return True"
StoreAndSave ==
    /\ pc = "store"
    /\ \E outcome \in {"shown"} \cup Raises :
          IF outcome \in Raises
          THEN AsyncRaises(outcome) /\ UNCHANGED effects
          ELSE /\ effects' = effects
                     \o (IF cli.no_cache THEN <<>> ELSE <<"cache_write">>)
                     \o <<"display">>
                     \o (IF cli.output_file THEN <<"save">> ELSE <<>>)
               /\ IF cli.output_file
                  THEN \E saved \in {"True", "False"} : Returns(saved)
                  ELSE Returns("True")
    /\ UNCHANGED <<notCli, cli, checked, exit_status>>

\* main returns 0 whatever the action returned
MainReturnsZero ==
    /\ pc = "returned"
    /\ exit_status' = 0
    /\ pc' = "exited"
    /\ UNCHANGED <<notCli, cli, checked, effects, success, in_flight>>

\* main, line 193: "return 0 if success else 1"
MainReturn ==
    /\ pc = "returned"
    /\ exit_status' = IF success = "True" THEN 0 ELSE 1
    /\ pc' = "exited"
    /\ UNCHANGED <<notCli, cli, checked, effects, success, in_flight>>

\* main, lines 195-200: "except KeyboardInterrupt: return 1", "except
\* Exception: return 1"
MainExcept ==
    /\ pc = "raised" /\ in_flight \in Raises
    /\ in_flight' = "none"
    /\ exit_status' = 1
    /\ pc' = "exited"
    /\ UNCHANGED <<notCli, cli, checked, effects, success>>

NextCli ==
    \/ MainDispatch \/ RunOtherAction \/ RunExtraction \/ RunWithSession
    \/ CheckCache \/ CheckSession \/ Navigate \/ ExtractData \/ StoreAndSave
    \/ MainReturn \/ MainExcept
SpecCli == InitCli /\ [][NextCli]_vars

Done(what) == \E k \in 1..Len(effects) : effects[k] = what
Times(what) == Cardinality({k \in 1..Len(effects) : effects[k] = what})

\* a run that found no session did nothing after the check
NothingAfterNoSession ==
    /\ ~Done("navigate") /\ ~Done("extract") /\ ~Done("cache_write")
    /\ Times("session_check") <= 1

C19_ExitStatus ==
    pc = "exited" =>
        /\ in_flight = "none"
        /\ exit_status \in {0, 1}
        /\ exit_status = 0 <=> success = "True"
C19_Witness ==
    /\ pc = "exited" /\ exit_status = 1 /\ success = "unset"
    /\ cli.action = "extract-player" /\ Done("navigate")

(***************************************************************************)
(* The cache store: CacheManager of cache_manager.py                       *)
(***************************************************************************)
timeout_hours == 12
timeout_seconds == timeout_hours * 3600

\* the clock moves in steps of TickSeconds up to MaxClock; the cache
\* directory holds at most MaxFiles files
TickSeconds == 43200
MaxClock == 43200
MaxFiles == 2

Records == {"r1", "r2"}
Request(action_type, identifier, league, expand) ==
    [kind |-> action_type, id |-> identifier, league |-> league,
     expand |-> expand]
\* one request, the four that differ from it in the kind, the identifier, the
\* league or the expand flag alone, and two more whose league or identifier
\* holds the text that another argument adds to the key
Requests ==
    { Request("team", "5", None, FALSE),
      Request("player", "5", None, FALSE),
      Request("team", "7", None, FALSE),
      Request("team", "5", S("NY"), FALSE),
      Request("team", "5", None, TRUE),
      Request("team", "5", S("expanded"), FALSE),
      Request("team", "5:NY", None, FALSE) }

\* hashlib.md5(text.encode()).hexdigest(), for the key strings of Requests
\* and of clear_cache
md5_hexdigest(text) ==
    CASE
         text = "team:5"
         -> "1bfe5cabb9c2d732fba70a20eff28d4a"
      [] text = "player:5"
         -> "1556ec1f789c68e31f97932926c6ed30"
      [] text = "team:7"
         -> "2d00781da055467c718b8a8a08afd4ab"
      [] text = "team:5:NY"
         -> "c973682e221ace077d5b7390ef7fb13f"
      [] text = "team:5:expanded"
         -> "157b9e6d625a69d40fd390ab38e65024"
      [] text = "team:7:expanded"
         -> "c78c041b25c5802a2e5812f034cb4508"
      [] text = "team:5:NY:expanded"
         -> "3da194ecd666f5bbec51c5a2e38da78c"
      [] text = "player:5:expanded"
         -> "ca218ffcdf08baf2a296890cd922a0bf"
      [] text = "player:7"
         -> "718c1a57aece6335dd049d1fbca5835c"
      [] text = "player:7:expanded"
         -> "f5a3de922f4ffc9c0ab53b1ec8a8a896"
      [] text = "player:5:NY"
         -> "c21a7afb289cc3e212b985ac888c3d90"
      [] text = "player:5:NY:expanded"
         -> "91da89bc79de68821245511808a9e5c5"

\* "if league:" -- None and the empty string add nothing to the key
key_string(action_type, identifier, league, expand) ==
    action_type \o ":" \o identifier
       \o (IF league # None /\ league.str # "" THEN ":" \o league.str ELSE "")
       \o (IF expand THEN ":expanded" ELSE "")

_generate_cache_key(action_type, identifier, league, expand) ==
    md5_hexdigest(key_string(action_type, identifier, league, expand))

\* a file is valid whatever its age
AnyFileValid(cache_key) == Has(cache_files, cache_key)

\* the path is the key plus ".json": the files are known by their key
_is_cache_valid(cache_key) ==
    /\ Has(cache_files, cache_key)
    /\ now - cache_files[cache_key].st_mtime < timeout_seconds

\* json.dump writes the dictionary as text, json.load reads a dictionary
\* back when the text is whole
json_dump(data) == [json |-> data]
TruncatedText == [json_cut |-> TRUE]
IsJson(text) == DOMAIN text = {"json"}
json_load(text) == text.json

InitCache ==
    /\ pc = "ready"
    /\ variant = "none"
    /\ cache_files = EmptyDict /\ now = 0 /\ written = EmptyDict
    /\ asked = None /\ got = None /\ call = [op |-> "none"]
    /\ IdleLoop /\ IdleRun /\ IdleParse /\ IdleScan /\ IdleExpand /\ IdleRetry
    /\ IdleCli

notCache == <<parseVars, loopVars, runVars, scanVars, expandVars, retryVars,
              cliVars>>

\* cache_data(action_type, identifier, data, league, expand): outcome says
\* whether the write went through, open() raised OSError (the file is as it
\* was) or json.dump raised after open() had truncated the file
CacheData ==
    /\ pc = "ready"
    /\ \E req \in Requests, record \in Records,
          outcome \in {"written", "open_failed", "dump_failed"} :
          LET cache_key == _generate_cache_key(req.kind, req.id, req.league,
                                               req.expand)
              data == [payload |-> record,
                       _cache_info |->
                          [cached_at |-> now, cache_key |-> cache_key,
                           action_type |-> req.kind, identifier |-> req.id,
                           league |-> req.league, expanded |-> req.expand,
                           timeout_hours |-> timeout_hours]]
          IN  /\ Has(cache_files, cache_key)
                    \/ Cardinality(DOMAIN cache_files) < MaxFiles
              /\ cache_files' =
                    IF outcome = "written"
                    THEN Put(cache_files, cache_key,
                             [text |-> json_dump(data), st_mtime |-> now])
                    ELSE IF outcome = "dump_failed"
                    THEN Put(cache_files, cache_key,
                             [text |-> TruncatedText, st_mtime |-> now])
                    ELSE cache_files
              /\ written' =
                    IF outcome = "written"
                    THEN Put(written, req, [record |-> record, at |-> now])
                    ELSE written
    /\ asked' = None /\ got' = None /\ call' = [op |-> "none"]
    /\ UNCHANGED <<notCache, now>>

\* get_cached_data(action_type, identifier, league, expand): what it returns
get_cached_data(action_type, identifier, league, expand) ==
    LET cache_key == _generate_cache_key(action_type, identifier, league,
                                         expand)
    IN  IF ~_is_cache_valid(cache_key) THEN None
        ELSE IF ~IsJson(cache_files[cache_key].text) THEN None
        ELSE [payload |-> json_load(cache_files[cache_key].text).payload,
              _cache_info |->
                 [cached_at |-> cache_files[cache_key].st_mtime,
                  cache_key |-> cache_key,
                  action_type |-> action_type,
                  identifier |-> identifier,
                  league |-> league,
                  expanded |-> expand]]

GetCachedData ==
    /\ pc = "ready"
    /\ \E req \in Requests :
          /\ asked' = req
          /\ got' = get_cached_data(req.kind, req.id, req.league, req.expand)
    /\ call' = [op |-> "none"]
    /\ UNCHANGED <<notCache, cache_files, now, written>>

\* time passes between two calls
Tick ==
    /\ pc = "ready"
    /\ now < MaxClock
    /\ now' = now + TickSeconds
    /\ asked' = None /\ got' = None /\ call' = [op |-> "none"]
    /\ UNCHANGED <<notCache, cache_files, written>>

\* the directory without the files of removed
Unlinked(removed) ==
    [cache_key \in (DOMAIN cache_files) \ removed |-> cache_files[cache_key]]

Forgotten(removed) ==
    [req \in {r \in DOMAIN written :
                 _generate_cache_key(r.kind, r.id, r.league, r.expand)
                    \notin removed} |-> written[req]]

\* cleanup_expired(): every file of the directory that is not valid is
\* unlinked; an OSError of an unlink ends the loop, and the files reached
\* before it (glob yields them in no fixed order) are gone
CleanupExpired ==
    /\ pc = "ready"
    /\ LET expired == {cache_key \in DOMAIN cache_files :
                          ~_is_cache_valid(cache_key)}
       IN  \E removed \in SUBSET expired :
              /\ cache_files' = Unlinked(removed)
              /\ written' = Forgotten(removed)
              /\ call' = [op |-> "cleanup_expired", before |-> cache_files,
                          removed |-> removed,
                          returned |-> Cardinality(removed),
                          OSError |-> removed # expired]
    /\ asked' = None /\ got' = None
    /\ UNCHANGED <<notCache, now>>

\* what clear_cache and the cache-manage command are asked to clear
ActionTypes == {"team"}
IdentifiersAsked == {"5"}
Given(argument) == argument # None /\ argument.str # ""

\* the files clear_cache(action_type, identifier) sets out to unlink
clear_cache_targets(action_type, identifier) ==
    IF Given(action_type) /\ Given(identifier)
    THEN \* "Clear specific cache entry (both expanded and unexpanded)": the
         \* two keys are generated without a league
         { _generate_cache_key(action_type.str, identifier.str, None, expand)
              : expand \in BOOLEAN } \cap DOMAIN cache_files
    ELSE IF action_type = None
    THEN DOMAIN cache_files
    ELSE \* the files of that action type, and the files that cannot be read
         {cache_key \in DOMAIN cache_files :
             IF IsJson(cache_files[cache_key].text)
             THEN S(json_load(cache_files[cache_key].text)
                       ._cache_info.action_type) = action_type
             ELSE TRUE}

\* clear_cache(action_type, identifier); "except OSError" ends it with the
\* count reached
ClearCache ==
    /\ pc = "ready"
    /\ \E action_type \in {None} \cup {S(kind) : kind \in ActionTypes},
          identifier \in {None} \cup {S(id) : id \in IdentifiersAsked} :
          LET targets == clear_cache_targets(action_type, identifier)
          IN  \E removed \in SUBSET targets :
                 /\ cache_files' = Unlinked(removed)
                 /\ written' = Forgotten(removed)
                 /\ call' = [op |-> "clear_cache",
                             action_type |-> action_type,
                             identifier |-> identifier,
                             removed |-> removed,
                             returned |-> Cardinality(removed),
                             OSError |-> removed # targets]
    /\ asked' = None /\ got' = None
    /\ UNCHANGED <<notCache, now>>

\* the parameters of CacheManager.clear_cache, and the keywords that
\* CacheManageAction._clear_cache passes to it
clear_cache_parameters == {"action_type", "identifier"}
clear_cache_keywords == {"action_type", "identifier", "league", "expand"}

\* the cache-manage command "clear": _clear_cache(args) inside run(args);
\* a call with a keyword the method does not have raises TypeError, which
\* "except Exception: ... return 1" catches
CacheManageClear ==
    /\ pc = "ready"
    /\ \E all \in BOOLEAN,
          action_type \in {None} \cup {S(kind) : kind \in ActionTypes},
          identifier \in {None} \cup {S(id) : id \in IdentifiersAsked} :
          LET status == IF all THEN 0
                        ELSE IF ~Given(action_type) \/ ~Given(identifier) THEN 1
                        ELSE IF clear_cache_keywords \subseteq clear_cache_parameters
                        THEN 0
                        ELSE 1
              targets == IF all THEN DOMAIN cache_files
                         ELSE IF status = 0
                         THEN clear_cache_targets(action_type, identifier)
                         ELSE {}
          IN  \E removed \in SUBSET targets :
                 \* _clear_all_cache goes on after a file that cannot be
                 \* unlinked, clear_cache stops at it
                 /\ cache_files' = Unlinked(removed)
                 /\ written' = Forgotten(removed)
                 /\ call' = [op |-> "cache-manage clear", all |-> all,
                             action_type |-> action_type,
                             identifier |-> identifier,
                             removed |-> removed,
                             exit_code |-> status]
    /\ asked' = None /\ got' = None
    /\ UNCHANGED <<notCache, now>>

NextCache ==
    \/ CacheData \/ GetCachedData \/ Tick
    \/ CleanupExpired \/ ClearCache \/ CacheManageClear
SpecCache == InitCache /\ [][NextCache]_vars

Fresh(req) == Has(written, req) /\ now - written[req].at < timeout_seconds

\* C20: after cache_data(kind, id, record, league, expand) succeeded,
\* get_cached_data with the same (kind, id, league, expand) returns that
\* record until it expires, and a get_cached_data with another kind, id,
\* league or expand flag never returns it: what a get returns is the record
\* last stored for exactly its own arguments, and it returns one whenever
\* such a record has not expired.
C20_ServedForSameRequest ==
    asked # None =>
        /\ got # None => (Fresh(asked) /\ got.payload = written[asked].record)
        /\ Fresh(asked) => (got # None /\ got.payload = written[asked].record)

\* C21: an extract action starts the browser only when caching is disabled or
\* its cache lookup missed; on a valid cache hit it displays the cached
\* record, saves it when a file was asked for, and finishes without starting
\* the browser or navigating; with caching disabled the run reads nothing
\* from the cache and writes nothing to it.
C21_BrowserOnlyOnMiss ==
    /\ Done("start_browser")
          => (cli.no_cache \/ (Done("cache_read") /\ ~cli.cached))
    /\ (cli.action \in Extractions /\ ~cli.no_cache /\ cli.cached)
          => /\ ~Done("start_browser") /\ ~Done("navigate") /\ ~Done("extract")
             /\ success = "True"
                   => effects = <<"cache_read", "display">>
                         \o (IF cli.output_file THEN <<"save">> ELSE <<>>)
    /\ cli.no_cache => (~Done("cache_read") /\ ~Done("cache_write"))
C21_Witness ==
    /\ pc = "exited" /\ cli.action = "extract-team"
    /\ ~cli.no_cache /\ cli.cached /\ cli.output_file
    /\ effects = <<"cache_read", "display", "save">> /\ exit_status = 0

Age(file) == now - file.st_mtime
Absent(req) == get_cached_data(req.kind, req.id, req.league, req.expand) = None

\* C22: get_cached_data returns a record only while the age of the entry is
\* below the timeout; once the age has reached the timeout every get for the
\* key returns absent until a new cache_data for it; cleanup_expired removes
\* exactly the entries whose age has reached the timeout and leaves every
\* entry that is still valid (when an unlink raises OSError it stops early:
\* what it has removed by then are expired entries only).
C22_ExpiryAtTimeout ==
    /\ got # None => now - got._cache_info.cached_at < timeout_seconds
    /\ \A req \in Requests :
          LET cache_key == _generate_cache_key(req.kind, req.id, req.league,
                                               req.expand)
          IN  (Has(cache_files, cache_key)
                 /\ Age(cache_files[cache_key]) >= timeout_seconds)
              => /\ Absent(req)
                 /\ asked = req => got = None
    /\ call.op = "cleanup_expired" =>
          LET expired == {cache_key \in DOMAIN call.before :
                             Age(call.before[cache_key]) >= timeout_seconds}
          IN  /\ call.removed \subseteq expired
              /\ ~call.OSError => call.removed = expired
              /\ DOMAIN cache_files = (DOMAIN call.before) \ call.removed
              /\ \A cache_key \in DOMAIN cache_files :
                    cache_files[cache_key] = call.before[cache_key]
              /\ call.returned = Cardinality(call.removed)
C22_Witness ==
    /\ call.op = "cleanup_expired" /\ ~call.OSError
    /\ call.returned = 1 /\ Cardinality(DOMAIN cache_files) = 1
    /\ \E req \in Requests : ~Absent(req)

\* C23: clear_cache(action_type, identifier) clears that entry in both its
\* expanded and unexpanded forms: afterwards get_cached_data for that action
\* type and identifier returns absent for either expand flag, under the
\* league the entry was stored with, and the count returned is the number of
\* entries removed; the cache-manage command "clear" with an action type and
\* an identifier does this and exits with status 0.
C23_ClearSpecific ==
    /\ (call.op = "clear_cache" /\ ~call.OSError
          /\ Given(call.action_type) /\ Given(call.identifier))
       => /\ \A req \in Requests :
                (S(req.kind) = call.action_type /\ S(req.id) = call.identifier)
                   => Absent(req)
          /\ call.returned = Cardinality(call.removed)
    /\ (call.op = "cache-manage clear" /\ ~call.all
          /\ Given(call.action_type) /\ Given(call.identifier))
       => /\ call.exit_code = 0
          /\ \A req \in Requests :
                (S(req.kind) = call.action_type /\ S(req.id) = call.identifier)
                   => Absent(req)

(***************************************************************************)
(* More properties of the Scroll-Pagination Loop                           *)
(***************************************************************************)
ReturnedNormally == pc = "classify" /\ exit \in {"bottom", "ceiling", "no_new"}
Merged(team, list) == \E j \in 1..Len(list) : SameTeam(team, list[j])
Covers(list, pg) ==
    LET OnPage(found) == \A i \in 1..Len(found) : Merged(found[i], list)
    IN  OnPage(extract_all_teams_from_table(variant, pg))

\* C24: when the Scroll-Pagination Loop returns normally, every valid record
\* that is on the page at that moment has been merged into the returned
\* list: nothing that the last scroll or click of the loop loaded is left
\* unscanned.
C24_NothingLeftUnscanned ==
    ReturnedNormally => Covers(returned, page)

\* C25: the loop stops at its attempt ceiling only after that many
\* consecutive iterations that merged no net-new record, and never while its
\* iterations are still merging new records.  The ceiling is compared with
\* the retry counter, so this is: the counter is raised only in an iteration
\* that merged nothing, it is 0 after a scan that merged something, and the
\* loop is left at the ceiling with the counter at the ceiling and nothing
\* merged by the latest scan.
C25_CeilingCountsBarrenIterations ==
    /\ [][scroll_attempts' > scroll_attempts => new_teams_added' = 0]_vars
    /\ [][(pc \in {"loop", "rescan"} /\ Len(all_teams') > Len(all_teams))
             => scroll_attempts' = 0]_vars
    /\ []((pc = "classify" /\ exit = "ceiling")
             => (scroll_attempts >= max_scroll_attempts /\ new_teams_added = 0))

\* C26: when an error interrupts the loop after some records were merged, the
\* loop returns the records merged so far, never an empty list in their
\* place (it raises nothing: an interrupted loop returns like any other).
C26_ErrorKeepsMerged ==
    (pc = "classify" /\ exit = "error" /\ all_teams # <<>>)
       => (returned = all_teams /\ returned # <<>>)

\* C27: in the record extract-player returns, no team (name, season) is in
\* current_teams and in past_teams at once, whatever rows scrolling revealed
\* after the first scan of the page (checked for the runs in which no scan
\* raised).
C27_CurrentAndPastDisjoint ==
    (variant = "player" /\ pc = "done" /\ ~trouble)
       => \A i \in 1..Len(current_teams) : ~Merged(current_teams[i], past_teams)

\* C28: every record the loop merged reaches the output: it is in
\* current_teams or in past_teams of the record extract-player returns, and
\* among the teams the statistics of extract_player_team_history are
\* computed from (checked for the runs in which no scan raised).
C28_MergedReachOutput ==
    (pc = "done" /\ ~trouble /\ (variant = "shared" => result # None))
       => \A i \in 1..Len(returned) :
             Merged(returned[i], current_teams \o past_teams)

\* the rows of the page that the Cell Parser and the validator of variant v
\* accept and that have at least 6 cells
DataRows(v, pg) ==
    {i \in 1..Len(pg.rows) :
        /\ Len(RowPool[pg.rows[i]]) >= 6
        /\ row_record(v, pg.rows[i]) # None
        /\ is_valid_team_data(v, row_record(v, pg.rows[i]))}

\* C29: every team-history row of the page that has at least 6 cells and a
\* valid team name yields a record from the Table Scanner: the header skip
\* never drops a data row, the first data row of a table body included
\* (checked for the scans in which nothing raises).
C29_NoDataRowDropped ==
    (pc = "scanned" /\ faulty = NoFault)
       => \A i \in DataRows(variant, page) :
             row_record(variant, page.rows[i]) \in Range(scan_teams)

(***************************************************************************)
(* The roster of a team page: ExtractTeamAction._extract_players           *)
(***************************************************************************)
MaxRosterRows == 3

\* the skip_names of _is_valid_player_data: those of the team validators and
\* the column titles of the roster table
player_skip_names ==
    skip_names \cup {
        <<"p","l","a","y","e","r"," ","n","a","m","e">>,
        <<"s","k","i","l","l"," ","l","e","v","e","l">>,
        <<"m","a","t","c","h","e","s"," ","w","o","n","/","p","l","a","y","e","d">>,
        <<"w","i","n"," ","%">>,
        <<"p","p","m">>,
        <<"p","a">> }

\* an entry of the denylist is in the name
NameHoldsLabel(player_data) ==
    LET name == IF Has(player_data, "name") THEN player_data.name ELSE <<>>
    IN  Len(name) >= 3 /\ \E skip \in player_skip_names : Contains(lower(name), skip)

\* the name is an entry of the denylist
NameIsLabel(player_data) ==
    LET name == IF Has(player_data, "name") THEN player_data.name ELSE <<>>
    IN  lower(name) \in player_skip_names

\* ExtractTeamAction._is_valid_player_data
ET_is_valid_player_data(player_data) ==
    LET name == IF Has(player_data, "name") THEN player_data.name ELSE <<>>
    IN  ValidName(name, player_skip_names)

\* the <tr> a team page can hold, as [cells, link]: the title row (<th>
\* cells only), four player rows, a row of two navigation links, and a row
\* that repeats the column titles in <td> cells
RosterRowPool == <<
    [cells |-> <<>>, link |-> <<>>],
    [cells |-> << PaulSmith \o <<"#","1","9","1","6","2","4","3","7">>, <<"7">>,
                  <<"2","/","3">>, <<"6","6",".","7","%">>, PpmCell, PaCell >>,
     link |-> <<"/","P","h","i","l","a","d","e","l","p","h","i","a","/",
                "m","e","m","b","e","r","/","3","2","8","7","2","8","8">>],
    [cells |-> << JackLee, <<"5">>, <<"1","/","2">>, <<"5","0",".","0","%">>,
                  PpmCell, PaCell >>,
     link |-> <<>>],
    [cells |-> << TomReed, <<"4">>, <<"0","/","1">>, <<"0",".","0","%">>,
                  PpmCell, PaCell >>,
     link |-> <<>>],
    [cells |-> << KimLund \o <<"#","2","2">>, <<"3">>, <<"-">>, <<"-">>,
                  <<"-">>, <<"-">> >>,
     link |-> <<>>],
    [cells |-> << <<"N","e","w","s">>, <<"E","v","e","n","t","s">> >>,
     link |-> <<>>],
    [cells |-> << <<"P","l","a","y","e","r"," ","N","a","m","e">>,
                  <<"S","k","i","l","l"," ","L","e","v","e","l">>,
                  <<"M","a","t","c","h","e","s">>, <<"W","i","n"," ","%">>,
                  <<"P","P","M">>, <<"P","A">> >>,
     link |-> <<>>] >>

RECURSIVE RosterPages(_)
RosterPages(n) ==
    IF n = 0 THEN {<<>>}
    ELSE LET shorter == RosterPages(n - 1)
         IN  shorter \cup {Append(q, r) : q \in shorter,
                                          r \in 1..Len(RosterRowPool)}

\* what the row parser makes of row r of the pool
RosterRecord == [r \in 1..Len(RosterRowPool) |->
    ET_extract_player_data_from_row(RosterRowPool[r].cells, RosterRowPool[r].link)]

\* _extract_players on the rows of the page: a row with no <td> is skipped,
\* a row with 6 cells or more is parsed and kept when the validator accepts
\* the record
extract_players(rows) ==
    LET kept == SelectSeq(rows,
                    LAMBDA r : /\ Len(RosterRowPool[r].cells) # 0
                               /\ Len(RosterRowPool[r].cells) >= 6
                               /\ RosterRecord[r] # None
                               /\ ET_is_valid_player_data(RosterRecord[r]))
    IN  [j \in 1..Len(kept) |-> RosterRecord[kept[j]]]

InitRoster ==
    /\ pc = "roster"
    /\ variant = "none"
    /\ \E rows \in RosterPages(MaxRosterRows) : page = [rows |-> rows, divs |-> {}]
    /\ all_teams = <<>> /\ previous_count = 0 /\ scroll_attempts = 0
    /\ new_teams_added = 0 /\ sel = 0 /\ clicked = FALSE /\ it = <<>>
    /\ scanned = None /\ returned = <<>> /\ exit = "none" /\ trouble = FALSE
    /\ IdleRun /\ IdleParse /\ IdleRest

\* one call of _extract_players; a page query that raises ends it in
\* "except Exception: return []"
ExtractPlayers ==
    /\ pc = "roster"
    /\ \E raised \in BOOLEAN :
          /\ players' = IF raised THEN <<>> ELSE extract_players(page.rows)
          /\ trouble' = raised
    /\ pc' = "extracted"
    /\ UNCHANGED <<parseVars, page, all_teams, previous_count, scroll_attempts,
                   new_teams_added, sel, clicked, it, scanned, returned, exit,
                   variant, attempt, current_teams, past_teams, result,
                   scanVars, roster, next_player, visits, failed, retryVars,
                   cliVars, cacheVars>>

NextRoster == ExtractPlayers
SpecRoster == InitRoster /\ [][NextRoster]_vars

Letters == Upper \cup Lowercase
\* a name of 3 or more letters and spaces
PlainName(name) ==
    /\ Len(name) >= 3
    /\ \A k \in 1..Len(name) : name[k] \in Letters \/ name[k] = " "

\* C30: every roster row of the team page that has at least 6 cells and a
\* player name of 3 or more letters and spaces which is not itself a
\* table-header or navigation label (for example 'Paul Smith' or 'Jack Lee')
\* is in the players list extract-team returns (checked for the calls in
\* which nothing raises).
C30_RosterRowIncluded ==
    (pc = "extracted" /\ ~trouble)
       => \A i \in 1..Len(page.rows) :
             LET row == RosterRowPool[page.rows[i]]
                 player_data == RosterRecord[page.rows[i]]
             IN  (/\ Len(row.cells) >= 6
                  /\ player_data # None
                  /\ PlainName(player_data.name)
                  /\ ~NameIsLabel(player_data))
                 => player_data \in Range(players)

=============================================================================
